---- MODULE Spec2Model ----
(***************************************************************************)
(* A state-machine model of voudp: the secure datagram socket              *)
(* (voudp/src/socket.rs), the server state (voudp/src/server.rs,           *)
(* voudp/src/console_cmd.rs, voudp/src/commands.rs), the client network    *)
(* thread (voudp/src/client.rs) and the chat decoder (voudp/src/util.rs).  *)
(*                                                                         *)
(* Plaintexts are sequences of bytes (0..255).  A datagram on the wire is  *)
(* either an AEAD frame [12-byte nonce][ciphertext+tag], kept symbolically *)
(* as (key, nonce, plaintext), or a raw byte string handed to the UDP      *)
(* socket as it is.                                                        *)
(***************************************************************************)
EXTENDS Integers, Sequences, FiniteSets, Bags, TLC

----------------------------------------------------------------------------
(* Bounds of the model *)

\* application-level sends (send_to / send_reliable calls) per run
MaxSends == 1
\* the clock of the socket model stops here (milliseconds)
MaxClock == 1000
\* the clock of the socket model advances in steps of this many milliseconds
ClockStep == 200
\* width in bits of the model's nonce counter (AtomicU64 in the source)
NonceCounterBits == 1
\* send_to calls per thread in the nonce model
MaxThreadSends == 2

----------------------------------------------------------------------------
(* Program constants *)

RELIABLE_FLAG == 128
ACK_FLAG == 129
\* tick_reliable: let timeout = Duration::from_millis(200)
RetransmitTimeout == 200
\* tick_reliable: let max_retries = 5
max_retries == 5
\* recv_from: if size < 12
NonceLen == 12
\* ServerState::run: let mut buf = [0u8; 2048]
RecvBufLen == 2048

----------------------------------------------------------------------------
(* Sockets, keys, payloads *)

\* two endpoints, each owning one SecureUdpSocket
Socks == {"srv", "cli"}
Peer(s) == IF s = "srv" THEN "cli" ELSE "srv"
\* both ends derive the key from the same passphrase
SharedKey == "k"
\* values the 4 random prefix bytes can take (create: OsRng.fill_bytes)
NoncePrefixes == {7, 9}
\* the two threads of the nonce model, both using clones of socket "cli"
Threads == {"t1", "t2"}
ThreadSock == "cli"
\* the socket whose application sends in the socket model; its peer only
\* receives and acknowledges
Sender == "srv"
\* what the application sends plainly (an AUDIO packet) and reliably (a CHAT
\* forward)
PlainPayloads == { <<2, 55>> }
ReliablePayloads == { <<6, 104>> }

NonceCounterMod == 2 ^ NonceCounterBits

VARIABLES
    nonce_counter,   \* InnerSocket.nonce_counter, per socket
    nonce_prefix,    \* InnerSocket.nonce_prefix, per socket
    seq_counter,     \* InnerSocket.seq_counter, per socket
    pending,         \* InnerSocket.pending: seq -> PendingPacket, per socket
    net,             \* datagrams in flight: a bag of [src, dst, frame]
    clock_ms,        \* Instant::now() of the socket model, in ms
    wire,            \* history: every datagram ever handed to UdpSocket::send_to
    nonce_log,       \* history: the nonces used by each socket, in fetch order
    delivered,       \* history: what recv_from returned Ok(n > 0) for, per socket
    rel_sent,        \* history: per socket, seq -> inner payload of send_reliable
    lost,            \* history: per sending socket, seq -> dropped transmissions
    acks,            \* history: ACKs produced, per acknowledging socket, a bag of seq
    acks_lost,       \* history: number of ACK datagrams the network dropped
    abandoned,       \* history: per socket, the seqs tick_reliable gave up on
    app_sends,       \* number of application-level sends so far
    tpc,             \* nonce model: each thread's position inside send_to
    tcounter,        \* nonce model: each thread's local `counter`
    tsends,          \* nonce model: send_to calls started, per thread
    tbuf,            \* nonce model: each thread's `buf` argument of send_to
    tret,            \* nonce model: where each thread continues after send_to
    connected,       \* ClientState.connected (AtomicBool)
    state,           \* ClientState.state (Mutex<State>)
    net_pc,          \* client: the network thread is in its loop or has left it
    recv_result,     \* client: what the last recv_from of the network thread returned
    codec,           \* client: the chat forward it decodes, from the server's inputs on
    capture_channels,\* client: `channels` of the capture stream's config, 0 before start_audio
    input_ring,      \* client: input_buffer, floats named by their place in the capture stream
    output_ring,     \* client: output_buffer
    pushed,          \* history: floats the capture callback has pushed so far
    aud_last,        \* history: what the last audio step discarded or drained
    remotes,         \* ServerState.remotes: endpoint -> Arc<Mutex<Remote>> (a heap id)
    heap,            \* the Remote objects that some Arc still refers to
    consoles,        \* ServerState.consoles: endpoint -> Console
    channels,        \* ServerState.channels: id -> Channel
    audio_rb,        \* ServerState.audio_rb: the audio intake queue
    config,          \* ServerState.config
    clock_s,         \* Instant::now() of the server model, in seconds
    out,             \* what the last handler passed to socket.send_to, in order
    last             \* the last server operation run and the endpoint it served

sockVars == << nonce_counter, nonce_prefix, seq_counter, pending, net, clock_ms,
               wire, nonce_log, delivered, rel_sent, lost, acks, acks_lost,
               abandoned, app_sends >>
audVars == << capture_channels, input_ring, output_ring, pushed, aud_last >>
cliVars == << connected, state, net_pc, recv_result, codec, audVars >>
threadVars == << tpc, tcounter, tsends, tbuf, tret, cliVars >>

srvVars == << remotes, heap, consoles, channels, audio_rb, config, clock_s, out, last >>

vars == << sockVars, threadVars, srvVars >>

----------------------------------------------------------------------------
(* Bytes *)

\* u32::to_be_bytes
to_be_bytes(n) ==
    << (n \div 16777216) % 256, (n \div 65536) % 256, (n \div 256) % 256, n % 256 >>

\* u32::from_be_bytes
from_be_bytes(b) == b[1] * 16777216 + b[2] * 65536 + b[3] * 256 + b[4]

\* the nonce of send_to: [4-byte prefix || 8-byte big-endian counter]
NonceBytes(prefix, counter) == << prefix, counter >>

\* the datagram send_to builds: nonce followed by cipher.encrypt(nonce, buf)
AeadFrame(key, nonce, buf) ==
    [aead |-> TRUE, key |-> key, nonce |-> nonce, bytes |-> buf]

\* bytes handed to the UDP socket without encryption
RawFrame(bytes) ==
    [aead |-> FALSE, key |-> "", nonce |-> << >>, bytes |-> bytes]

\* recv_from: size < 12.  A frame built by send_to holds its 12-byte nonce, so
\* only raw byte strings can be too small.
TooSmall(f) == ~f.aead /\ Len(f.bytes) < NonceLen

\* cipher.decrypt succeeds exactly on a frame sealed under the same key
DecryptOk(key, f) == f.aead /\ f.key = key

Datagram(src, dst, frame) == [src |-> src, dst |-> dst, frame |-> frame]

\* a counter that is read but not advanced
FetchAddNonce_Stuck(c) == c

\* the fetch_add of send_to: the counter wraps at its width
FetchAddNonce(c) == (c + 1) % NonceCounterMod

\* the plaintext send_reliable wraps a payload in
ReliablePacket(seq, payload) == << RELIABLE_FLAG >> \o to_be_bytes(seq) \o payload

\* the plaintext of send_ack
AckPlain(seq) == << ACK_FLAG >> \o to_be_bytes(seq)

----------------------------------------------------------------------------
\* the sockets after SecureUdpSocket::create
SocketsCreated ==
    /\ nonce_counter = [s \in Socks |-> 0]
    /\ nonce_prefix \in [Socks -> NoncePrefixes]
    /\ seq_counter = [s \in Socks |-> 1]
    /\ pending = [s \in Socks |-> << >>]
    /\ net = EmptyBag
    /\ clock_ms = 0
    /\ wire = {}
    /\ nonce_log = [s \in Socks |-> << >>]
    /\ delivered = [s \in Socks |-> << >>]
    /\ rel_sent = [s \in Socks |-> << >>]
    /\ lost = [s \in Socks |-> << >>]
    /\ acks = [s \in Socks |-> EmptyBag]
    /\ acks_lost = 0
    /\ abandoned = [s \in Socks |-> {}]
    /\ app_sends = 0
    /\ tpc = [t \in Threads |-> "idle"]
    /\ tcounter = [t \in Threads |-> 0]
    /\ tsends = [t \in Threads |-> 0]
    /\ tbuf = [t \in Threads |-> << >>]
    /\ tret = [t \in Threads |-> "idle"]
    /\ connected = TRUE
    /\ state = "Fine"
    /\ net_pc = "loop"
    /\ recv_result = "none"
    /\ capture_channels = 0
    /\ input_ring = << >>
    /\ output_ring = << >>
    /\ pushed = 0
    /\ aud_last = [op |-> "none", drops |-> << >>, frames |-> << >>]

----------------------------------------------------------------------------
(* Maps (HashMap) as functions *)

MapPut(m, k, v) == [x \in DOMAIN m \cup {k} |-> IF x = k THEN v ELSE m[x]]
MapDel(m, k) == [x \in DOMAIN m \ {k} |-> m[x]]
MapGet(m, k, dflt) == IF k \in DOMAIN m THEN m[k] ELSE dflt

----------------------------------------------------------------------------
(* SecureUdpSocket *)

\* the datagram one send_to call of socket s puts on the wire
SendToDatagram(s, buf, addr) ==
    Datagram(s, addr,
             AeadFrame(SharedKey, NonceBytes(nonce_prefix[s], nonce_counter[s]), buf))

\* a tick_reliable that would seal the pending packet like send_to does
RetransmitFrame_Sealed(s, pkt) ==
    AeadFrame(SharedKey, NonceBytes(nonce_prefix[s], nonce_counter[s]), pkt.data)

\* what tick_reliable hands to the UDP socket for a pending packet:
\* socket.send_to(&pkt.data, pkt.addr), the stored plaintext as it is
RetransmitFrame(s, pkt) == RawFrame(pkt.data)

\* is this plaintext (or raw byte string) a reliable data packet / an ACK
IsReliablePlain(b) == Len(b) >= 6 /\ b[1] = RELIABLE_FLAG
IsAckPlain(b) == Len(b) = 5 /\ b[1] = ACK_FLAG
PlainSeq(b) == from_be_bytes(SubSeq(b, 2, 5))

\* SecureUdpSocket::send_to, called by the application
SendTo(s, buf, addr) ==
    /\ app_sends < MaxSends
    /\ LET d == SendToDatagram(s, buf, addr) IN
        /\ nonce_counter' = [nonce_counter EXCEPT ![s] = FetchAddNonce(@)]
        /\ nonce_log' = [nonce_log EXCEPT ![s] = Append(@, d.frame.nonce)]
        /\ net' = net (+) SetToBag({d})
        /\ wire' = wire \cup {d}
    /\ app_sends' = app_sends + 1
    /\ UNCHANGED << nonce_prefix, seq_counter, pending, clock_ms, delivered,
                    rel_sent, lost, acks, acks_lost, abandoned, threadVars, srvVars >>

\* SecureUdpSocket::send_reliable
SendReliable(s, payload, addr) ==
    /\ app_sends < MaxSends
    /\ LET seq == seq_counter[s]
           packet == ReliablePacket(seq, payload)
           d == SendToDatagram(s, packet, addr)
       IN
        /\ seq_counter' = [seq_counter EXCEPT ![s] = @ + 1]
        /\ nonce_counter' = [nonce_counter EXCEPT ![s] = FetchAddNonce(@)]
        /\ nonce_log' = [nonce_log EXCEPT ![s] = Append(@, d.frame.nonce)]
        /\ net' = net (+) SetToBag({d})
        /\ wire' = wire \cup {d}
        /\ pending' = [pending EXCEPT ![s] =
                          MapPut(@, seq, [data |-> packet, addr |-> addr,
                                          last_sent |-> clock_ms, retries |-> 0])]
        /\ rel_sent' = [rel_sent EXCEPT ![s] = MapPut(@, seq, payload)]
        /\ lost' = [lost EXCEPT ![s] = MapPut(@, seq, 0)]
    /\ app_sends' = app_sends + 1
    /\ UNCHANGED << nonce_prefix, clock_ms, delivered, acks, acks_lost,
                    abandoned, threadVars, srvVars >>

\* recv_from: the datagram is shorter than a nonce, or does not decrypt
RecvRejectSock(s, d) ==
    /\ TooSmall(d.frame) \/ ~DecryptOk(SharedKey, d.frame)
    /\ net' = net (-) SetToBag({d})
    /\ UNCHANGED << nonce_counter, nonce_prefix, seq_counter, pending, clock_ms,
                    wire, nonce_log, delivered, rel_sent, lost, acks, acks_lost,
                    abandoned, app_sends >>

\* recv_from called outside the client network thread
RecvReject(s, d) == RecvRejectSock(s, d) /\ UNCHANGED << threadVars, srvVars >>

\* recv_from: ACK handling
RecvAckSock(s, d) ==
    /\ ~TooSmall(d.frame) /\ DecryptOk(SharedKey, d.frame)
    /\ IsAckPlain(d.frame.bytes)
    /\ pending' = [pending EXCEPT ![s] = MapDel(@, PlainSeq(d.frame.bytes))]
    /\ net' = net (-) SetToBag({d})
    /\ UNCHANGED << nonce_counter, nonce_prefix, seq_counter, clock_ms,
                    wire, nonce_log, delivered, rel_sent, lost, acks, acks_lost,
                    abandoned, app_sends >>

\* recv_from called outside the client network thread
RecvAck(s, d) == RecvAckSock(s, d) /\ UNCHANGED << threadVars, srvVars >>

\* a receiver that hands the inner payload up without acknowledging it
RecvReliableSock_NoAck(s, d) ==
    /\ ~TooSmall(d.frame) /\ DecryptOk(SharedKey, d.frame)
    /\ ~IsAckPlain(d.frame.bytes)
    /\ IsReliablePlain(d.frame.bytes)
    /\ LET plaintext == d.frame.bytes
           seq == PlainSeq(plaintext)
           inner == SubSeq(plaintext, 6, Len(plaintext))
       IN
        /\ net' = net (-) SetToBag({d})
        /\ delivered' =
             [delivered EXCEPT ![s] =
                 Append(@, [from |-> d.src, rel |-> TRUE, seq |-> seq, bytes |-> inner])]
    /\ UNCHANGED << nonce_counter, nonce_log, wire, acks, nonce_prefix, seq_counter,
                    pending, clock_ms, rel_sent, lost, acks_lost, abandoned, app_sends >>

\* recv_from: reliable packet handling (send_ack, then hand the inner payload up)
RecvReliableSock(s, d) ==
    /\ ~TooSmall(d.frame) /\ DecryptOk(SharedKey, d.frame)
    /\ ~IsAckPlain(d.frame.bytes)
    /\ IsReliablePlain(d.frame.bytes)
    /\ LET plaintext == d.frame.bytes
           seq == PlainSeq(plaintext)
           inner == SubSeq(plaintext, 6, Len(plaintext))
           a == SendToDatagram(s, AckPlain(seq), d.src)
       IN
        /\ nonce_counter' = [nonce_counter EXCEPT ![s] = FetchAddNonce(@)]
        /\ nonce_log' = [nonce_log EXCEPT ![s] = Append(@, a.frame.nonce)]
        /\ net' = (net (-) SetToBag({d})) (+) SetToBag({a})
        /\ wire' = wire \cup {a}
        /\ acks' = [acks EXCEPT ![s] = @ (+) SetToBag({seq})]
        /\ delivered' =
             IF Len(inner) > RecvBufLen
             THEN delivered
             ELSE [delivered EXCEPT ![s] =
                      Append(@, [from |-> d.src, rel |-> TRUE, seq |-> seq,
                                 bytes |-> inner])]
    /\ UNCHANGED << nonce_prefix, seq_counter, pending, clock_ms, rel_sent, lost,
                    acks_lost, abandoned, app_sends >>

\* recv_from called outside the client network thread
RecvReliable(s, d) == RecvReliableSock(s, d) /\ UNCHANGED << threadVars, srvVars >>

\* recv_from: any other plaintext is handed up as it is
RecvPlainSock(s, d) ==
    /\ ~TooSmall(d.frame) /\ DecryptOk(SharedKey, d.frame)
    /\ ~IsAckPlain(d.frame.bytes)
    /\ ~IsReliablePlain(d.frame.bytes)
    /\ net' = net (-) SetToBag({d})
    /\ delivered' =
         IF Len(d.frame.bytes) > RecvBufLen
         THEN delivered
         ELSE [delivered EXCEPT ![s] =
                  Append(@, [from |-> d.src, rel |-> FALSE, seq |-> 0,
                             bytes |-> d.frame.bytes])]
    /\ UNCHANGED << nonce_counter, nonce_prefix, seq_counter, pending, clock_ms,
                    wire, nonce_log, rel_sent, lost, acks, acks_lost,
                    abandoned, app_sends >>

\* recv_from called outside the client network thread
RecvPlain(s, d) == RecvPlainSock(s, d) /\ UNCHANGED << threadVars, srvVars >>

\* SecureUdpSocket::recv_from on a datagram the UDP socket has for s
RecvFrom(s) ==
    \E d \in BagToSet(net) :
        /\ d.dst = s
        /\ \/ RecvReject(s, d)
           \/ RecvAck(s, d)
           \/ RecvReliable(s, d)
           \/ RecvPlain(s, d)

\* a tick that resends every pending packet whatever its age
TickReliable_Eager(s) ==
    LET P == pending[s]
        gone == {q \in DOMAIN P : P[q].retries >= max_retries}
        resend == DOMAIN P \ gone
        resent == {Datagram(s, P[q].addr, RetransmitFrame(s, P[q])) : q \in resend}
    IN
        /\ pending' = [pending EXCEPT ![s] =
                          [q \in DOMAIN P \ gone |->
                              [P[q] EXCEPT !.last_sent = clock_ms, !.retries = @ + 1]]]
        /\ net' = net (+) SetToBag(resent)
        /\ wire' = wire \cup resent
        /\ abandoned' = [abandoned EXCEPT ![s] = @ \cup gone]
        /\ UNCHANGED << nonce_counter, nonce_prefix, seq_counter, clock_ms,
                        nonce_log, delivered, rel_sent, lost, acks, acks_lost,
                        app_sends, threadVars, srvVars >>

\* SecureUdpSocket::tick_reliable
TickReliable(s) ==
    LET P == pending[s]
        gone == {q \in DOMAIN P : P[q].retries >= max_retries}
        resend == {q \in DOMAIN P \ gone :
                      clock_ms - P[q].last_sent >= RetransmitTimeout}
        resent == {Datagram(s, P[q].addr, RetransmitFrame(s, P[q])) : q \in resend}
    IN
        /\ pending' = [pending EXCEPT ![s] =
                          [q \in DOMAIN P \ gone |->
                              IF q \in resend
                              THEN [P[q] EXCEPT !.last_sent = clock_ms,
                                                !.retries = @ + 1]
                              ELSE P[q]]]
        /\ net' = net (+) SetToBag(resent)
        /\ wire' = wire \cup resent
        /\ abandoned' = [abandoned EXCEPT ![s] = @ \cup gone]
        /\ UNCHANGED << nonce_counter, nonce_prefix, seq_counter, clock_ms,
                        nonce_log, delivered, rel_sent, lost, acks, acks_lost,
                        app_sends, threadVars, srvVars >>

\* the network loses a datagram
Drop ==
    \E d \in BagToSet(net) :
        LET b == d.frame.bytes IN
        /\ net' = net (-) SetToBag({d})
        /\ lost' = IF IsReliablePlain(b) /\ PlainSeq(b) \in DOMAIN lost[d.src]
                   THEN [lost EXCEPT ![d.src][PlainSeq(b)] = @ + 1]
                   ELSE lost
        /\ acks_lost' = IF IsAckPlain(b) THEN acks_lost + 1 ELSE acks_lost
        /\ UNCHANGED << nonce_counter, nonce_prefix, seq_counter, pending, clock_ms,
                        wire, nonce_log, delivered, rel_sent, acks, abandoned,
                        app_sends, threadVars, srvVars >>

\* time passes
AdvanceClock ==
    /\ clock_ms < MaxClock
    /\ clock_ms' = clock_ms + ClockStep
    /\ UNCHANGED << nonce_counter, nonce_prefix, seq_counter, pending, net,
                    wire, nonce_log, delivered, rel_sent, lost, acks, acks_lost,
                    abandoned, app_sends, threadVars, srvVars >>

NextSock ==
    \/ \E buf \in PlainPayloads : SendTo(Sender, buf, Peer(Sender))
    \/ \E payload \in ReliablePayloads : SendReliable(Sender, payload, Peer(Sender))
    \/ \E s \in Socks : RecvFrom(s)
    \/ \E s \in Socks : TickReliable(s)
    \/ Drop
    \/ AdvanceClock


----------------------------------------------------------------------------
(* send_to, send_reliable and send_ack called from several threads on clones  *)
(* of one socket: each call is split at its atomic operations.               *)

sockFrame == << nonce_prefix, clock_ms, delivered, rel_sent, lost, acks,
                acks_lost, abandoned, app_sends >>

\* a thread calls send_to (from the application, or from send_ack)
ThreadCallSendTo(t, buf) ==
    /\ tpc[t] = "idle"
    /\ tsends[t] < MaxThreadSends
    /\ tsends' = [tsends EXCEPT ![t] = @ + 1]
    /\ tbuf' = [tbuf EXCEPT ![t] = buf]
    /\ tret' = [tret EXCEPT ![t] = "idle"]
    /\ tpc' = [tpc EXCEPT ![t] = "send_to"]
    /\ UNCHANGED << nonce_counter, seq_counter, pending, net, wire, nonce_log,
                    tcounter, sockFrame, cliVars, srvVars >>

\* a thread calls send_reliable: seq_counter.fetch_add, then send_to(&packet)
ThreadCallSendReliable(t, payload) ==
    /\ tpc[t] = "idle"
    /\ tsends[t] < MaxThreadSends
    /\ tsends' = [tsends EXCEPT ![t] = @ + 1]
    /\ seq_counter' = [seq_counter EXCEPT ![ThreadSock] = @ + 1]
    /\ tbuf' = [tbuf EXCEPT ![t] = ReliablePacket(seq_counter[ThreadSock], payload)]
    /\ tret' = [tret EXCEPT ![t] = "insert"]
    /\ tpc' = [tpc EXCEPT ![t] = "send_to"]
    /\ UNCHANGED << nonce_counter, pending, net, wire, nonce_log, tcounter,
                    sockFrame, cliVars, srvVars >>

\* send_to: let counter = nonce_counter.fetch_add(1, Relaxed)
ThreadFetchAdd(t) ==
    /\ tpc[t] = "send_to"
    /\ tcounter' = [tcounter EXCEPT ![t] = nonce_counter[ThreadSock]]
    /\ nonce_counter' = [nonce_counter EXCEPT ![ThreadSock] = FetchAddNonce(@)]
    /\ tpc' = [tpc EXCEPT ![t] = "encrypt"]
    /\ UNCHANGED << seq_counter, pending, net, wire, nonce_log, tsends, tbuf,
                    tret, sockFrame, cliVars, srvVars >>

\* send_to: build the nonce, encrypt, socket.send_to(&packet, addr)
ThreadTransmit(t) ==
    /\ tpc[t] = "encrypt"
    /\ LET nonce == NonceBytes(nonce_prefix[ThreadSock], tcounter[t])
           d == Datagram(ThreadSock, Peer(ThreadSock),
                         AeadFrame(SharedKey, nonce, tbuf[t]))
       IN
        /\ nonce_log' = [nonce_log EXCEPT ![ThreadSock] = Append(@, nonce)]
        /\ net' = net (+) SetToBag({d})
        /\ wire' = wire \cup {d}
    /\ tpc' = [tpc EXCEPT ![t] = tret[t]]
    /\ UNCHANGED << nonce_counter, seq_counter, pending, tcounter, tsends, tbuf,
                    tret, sockFrame, cliVars, srvVars >>

\* send_reliable: pending.lock().insert(seq, PendingPacket {..})
ThreadInsert(t) ==
    /\ tpc[t] = "insert"
    /\ pending' = [pending EXCEPT ![ThreadSock] =
                      MapPut(@, PlainSeq(tbuf[t]),
                             [data |-> tbuf[t], addr |-> Peer(ThreadSock),
                              last_sent |-> clock_ms, retries |-> 0])]
    /\ tpc' = [tpc EXCEPT ![t] = "idle"]
    /\ UNCHANGED << nonce_counter, seq_counter, net, wire, nonce_log, tcounter,
                    tsends, tbuf, tret, sockFrame, cliVars, srvVars >>

NextNonce ==
    \/ \E t \in Threads, buf \in PlainPayloads \cup {AckPlain(1)} :
          ThreadCallSendTo(t, buf)
    \/ \E t \in Threads, payload \in ReliablePayloads :
          ThreadCallSendReliable(t, payload)
    \/ \E t \in Threads : ThreadFetchAdd(t)
    \/ \E t \in Threads : ThreadTransmit(t)
    \/ \E t \in Threads : ThreadInsert(t)


----------------------------------------------------------------------------
(* Claims about the secure socket *)

\* indices of a sequence whose element satisfies a test
Deliveries(s, from, q) ==
    {i \in DOMAIN delivered[s] :
        delivered[s][i].rel /\ delivered[s][i].from = from /\ delivered[s][i].seq = q}

\* a copy of reliable packet q of socket s that its peer could still decrypt
SealedCopyInFlight(s, q) ==
    \E d \in BagToSet(net) :
        /\ d.src = s /\ d.frame.aead
        /\ IsReliablePlain(d.frame.bytes) /\ PlainSeq(d.frame.bytes) = q

\* C1: every datagram put on the wire (first transmissions, ACKs and the
\* retransmissions of tick_reliable) is an AEAD frame; no payload bytes are
\* sent unencrypted.
C1_EveryDatagramSealed == \A d \in wire : d.frame.aead

\* C2: a reliable send of which at most 4 transmissions (and no ACK) were lost
\* is handed to the receiver's caller and its pending entry is cleared by the
\* ACK; stated on finite runs: once the entry has left the pending map and no
\* decryptable copy is in flight any more, the payload has been delivered, and
\* with no loss at all exactly one ACK was produced.
C2_ReliableSendDelivered ==
    \A q \in DOMAIN rel_sent[Sender] :
        ( /\ q \notin DOMAIN pending[Sender]
          /\ lost[Sender][q] <= 4
          /\ acks_lost = 0
          /\ ~SealedCopyInFlight(Sender, q) )
        => /\ \E i \in Deliveries(Peer(Sender), Sender, q) :
                 delivered[Peer(Sender)][i].bytes = rel_sent[Sender][q]
           /\ lost[Sender][q] = 0 => CopiesIn(q, acks[Peer(Sender)]) = 1

\* C3: for each reliable send (one sequence number of one sender) the
\* receiving socket hands the inner payload to its caller at most once,
\* whatever is lost or delayed, a lost or late ACK included.
C3_NoDuplicateDelivery ==
    \A s \in Socks : \A q \in DOMAIN rel_sent[Peer(s)] :
        Cardinality(Deliveries(s, Peer(s), q)) <= 1

\* C3 witness: the payload was delivered, its ACK was lost, the sender
\* retransmitted and the receiver has consumed the retransmission.
C3_Witness ==
    \E q \in DOMAIN pending[Sender] :
        /\ Cardinality(Deliveries(Peer(Sender), Sender, q)) = 1
        /\ acks_lost >= 1
        /\ pending[Sender][q].retries >= 2
        /\ net = EmptyBag

\* send_to calls of the threads that have passed their fetch_add
NonceFetches ==
    Len(nonce_log[ThreadSock]) + Cardinality({t \in Threads : tpc[t] = "encrypt"})

\* C4: no two encrypted datagrams of one socket carry the same nonce, under
\* every interleaving of the threads using its clones, as long as no more
\* datagrams were sent than the counter has values.
C4_NonceUnique ==
    NonceFetches <= NonceCounterMod =>
        \A i, j \in DOMAIN nonce_log[ThreadSock] :
            i # j => nonce_log[ThreadSock][i] # nonce_log[ThreadSock][j]

\* C4 witness: two threads overlapped inside send_to, and the datagram with
\* the later counter value went out first.
C4_Witness ==
    /\ NonceFetches <= NonceCounterMod
    /\ Len(nonce_log[ThreadSock]) = 2
    /\ nonce_log[ThreadSock][1][2] > nonce_log[ThreadSock][2][2]

----------------------------------------------------------------------------
(* Server state: voudp/src/server.rs *)

\* Bounds of the server model
\* ServerConfig.max_users is drawn from 1..MaxUsers
MaxUsers == 2
\* ServerConfig.timeout_secs of the model
TimeoutSecs == 0
\* the clock of the server model stops here (seconds)
MaxClockS == 1
\* the member lists of all channels together are not grown beyond this length
MaxMembers == 3
\* the console creates no channel beyond this id
MaxChannelId == 4
\* datagrams the server socket sends in the specification of the wire
MaxWireSends == 8
MaxMaskLen == 2
\* frames of one remote that wait in the queue and in its jitter buffer
MaxBacklog == 2
MaxMsgLen == 2

\* Program constants
JITTER_BUFFER_LEN == 50
\* u16::MAX
U16_MAX == 65535
\* packet tags
TagJoin == 1
TagAudio == 2
TagEof == 3
TagDm == 17
TagFlowJoin == 10
TagFlowLeave == 11
TagRegisterConsole == 255
TagConsoleCmd == 13
TagConsoleKeepalive == 4
TagMask == 4
TagList == 5
TagChat == 6
TagUnauthChat == 7
TagCtrl == 8
TagSyncCommands == 12
TagCmd == 13
TagCommandResponse == 14
TagCommandError == 15
TagFlowRenick == 16
\* ControlRequest
SetDeafen == 1
SetUndeafen == 2
SetMute == 3
SetUnmute == 4
\* a console reply is the reply text itself, with no tag byte
TagNone == 0
\* protocol::PASSWORD
PASSWORD == "password"
\* abstract Opus payloads: a frame that decodes to a voiced / an all-zero
\* frame of the right size, one that decodes to another size, undecodable bytes
OpusVoiced == << "opus_voiced" >>
OpusZero == << "opus_zero" >>
OpusShort == << "opus_short" >>
OpusCorrupt == << "opus_corrupt" >>

\* voice endpoints and the endpoint that knows the console password
Addrs == {"a1", "a2"}
ConsoleAddrs == {"adm"}
\* Remote.mask: None
NoMask == ""
\* decoded PCM frames: all zeros, or carrying a voice
ZeroFrame == "zero"
VoicedFrame == "voiced"
\* Channel.filter_states values: (0.0, 0.0), or advanced by remove_dc_bias
FilterInit == "init"
FilterRun == "run"

\* Remote::new
RemoteNew(addr, now) ==
    [addr |-> addr, channel_id |-> 0, mask |-> NoMask, jitter_buffer |-> << >>,
     deaf |-> FALSE, mute |-> FALSE, last_active |-> now]

\* Channel::new
ChannelNew(name, id) ==
    [name |-> name, id |-> id, remotes |-> << >>, buffers |-> << >>,
     filter_states |-> << >>]

\* format!("general-{chan_id}")
GeneralName(chan_id) == "general-" \o ToString(chan_id)

\* ServerState::new: the default channels
DefaultChannels ==
    [id \in {1, 2, 3} |->
        ChannelNew(CASE id = 1 -> "general" [] id = 2 -> "music" [] OTHER -> "test", id)]

\* the server state as one value, for the handlers to transform
St ==
    [remotes |-> remotes, heap |-> heap, consoles |-> consoles,
     channels |-> channels, audio_rb |-> audio_rb, out |-> << >>]

\* a packet handed to socket.send_to (talkers: whose frames an AUDIO mix sums)
Packet(to, tag, body) == [to |-> to, tag |-> tag, body |-> body, talkers |-> {}]

\* ServerState::dm
dm(sv, addr, msg) == [sv EXCEPT !.out = Append(@, Packet(addr, TagDm, msg))]

\* the elements of a sequence that pass a test, in order (Vec::retain)
RECURSIVE Retain(_, _)
Retain(seq, keep) ==
    IF seq = << >> THEN << >>
    ELSE IF Head(seq) \in keep THEN << Head(seq) >> \o Retain(Tail(seq), keep)
    ELSE Retain(Tail(seq), keep)

\* Arc::new: an id no live object has
NewOid(h) == CHOOSE n \in 1..(Cardinality(DOMAIN h) + 1) : n \notin DOMAIN h

\* the object ids some Arc refers to: the endpoint map and the member lists
Referenced(sv) ==
    {sv.remotes[a] : a \in DOMAIN sv.remotes}
      \cup UNION {{sv.channels[c].remotes[i] : i \in DOMAIN sv.channels[c].remotes} :
                     c \in DOMAIN sv.channels}

\* objects whose last Arc is gone are freed
DropUnreferenced(sv) ==
    [sv EXCEPT !.heap = [o \in DOMAIN sv.heap \cap Referenced(sv) |-> sv.heap[o]]]

\* a member list that drops the map entries but keeps the member
remove_remote_KeepMember(ch, h, addr) ==
    [ch EXCEPT !.buffers = MapDel(@, addr),
               !.filter_states = MapDel(@, addr)]

\* Channel::add_remote
add_remote(ch, oid, addr) ==
    [ch EXCEPT !.remotes = Append(@, oid),
               !.buffers = MapPut(@, addr, ZeroFrame),
               !.filter_states = MapPut(@, addr, FilterInit)]

\* Channel::remove_remote (h: the heap the member references point into)
remove_remote(ch, h, addr) ==
    [ch EXCEPT !.remotes = Retain(@, {o \in DOMAIN h : h[o].addr # addr}),
               !.buffers = MapDel(@, addr),
               !.filter_states = MapDel(@, addr)]

\* the endpoints of a channel's members, in list order
MemberAddrs(ch, h) == [i \in DOMAIN ch.remotes |-> h[ch.remotes[i]].addr]

\* send one packet to each endpoint of a list, in order
RECURSIVE SendEach(_, _, _, _)
SendEach(sv, addrs, tag, body) ==
    IF addrs = << >> THEN sv
    ELSE SendEach([sv EXCEPT !.out = Append(@, Packet(Head(addrs), tag, body))],
                  Tail(addrs), tag, body)

\* ServerState::broadcast_join (broadcast_join_masked with old_mask = None)
broadcast_join(sv, channel_id, mask) ==
    IF channel_id \in DOMAIN sv.channels
    THEN SendEach(sv, MemberAddrs(sv.channels[channel_id], sv.heap), TagFlowJoin, mask)
    ELSE sv

\* ServerState::handle_join (data: the bytes after the tag)
handle_join(sv, addr, data, now) ==
    IF Len(data) < 4 THEN sv
    ELSE
    LET chan_id == from_be_bytes(SubSeq(data, 1, 4)) IN
    IF chan_id = 0 /\ chan_id >= U16_MAX THEN sv
    ELSE
    LET isnew == addr \notin DOMAIN sv.remotes
        sv1 == IF isnew THEN dm(sv, addr, "Welcome to this server. Server time is " \o ToString(now)) ELSE sv
        oid == IF isnew THEN NewOid(sv.heap) ELSE sv.remotes[addr]
        heap1 == IF isnew THEN MapPut(sv.heap, oid, RemoteNew(addr, now)) ELSE sv.heap
        old_channel_id == heap1[oid].channel_id
        mask == heap1[oid].mask
        heap2 == [heap1 EXCEPT ![oid].channel_id = chan_id]
        sv2 == [sv1 EXCEPT !.remotes = MapPut(@, addr, oid), !.heap = heap2]
        sv3 == IF /\ old_channel_id # chan_id
                  /\ old_channel_id # 0
                  /\ old_channel_id \in DOMAIN sv2.channels
               THEN [sv2 EXCEPT !.channels[old_channel_id] = remove_remote(@, heap2, addr)]
               ELSE sv2
        sv4 == IF mask # NoMask THEN broadcast_join(sv3, chan_id, mask) ELSE sv3
        sv5 == IF chan_id \in DOMAIN sv4.channels THEN sv4
               ELSE [sv4 EXCEPT !.channels =
                        MapPut(@, chan_id, ChannelNew(GeneralName(chan_id), chan_id))]
        sv6 == dm(sv5, addr, "You have been moved to #" \o sv5.channels[chan_id].name)
    IN  [sv6 EXCEPT !.channels[chan_id] = add_remote(@, oid, addr)]

\* an intake that pushes without asking whether the queue is full
handle_audio_NoFullCheck(sv, addr, data, now, cfg) ==
    IF addr \notin DOMAIN sv.remotes THEN sv
    ELSE [sv EXCEPT !.heap[sv.remotes[addr]].last_active = now,
                    !.audio_rb = Append(@, [addr |-> addr, data |-> data])]

\* ServerState::handle_audio (data: the Opus bytes after the tag)
handle_audio(sv, addr, data, now, cfg) ==
    IF addr \notin DOMAIN sv.remotes THEN sv
    ELSE
    LET sv1 == [sv EXCEPT !.heap[sv.remotes[addr]].last_active = now] IN
    IF Len(sv1.audio_rb) >= cfg.max_users THEN sv1
    ELSE [sv1 EXCEPT !.audio_rb = Append(@, [addr |-> addr, data |-> data])]

\* the leave broadcast and removal that handle_eof and cleanup share
LeaveChannel(sv, addr) ==
    LET r == sv.heap[sv.remotes[addr]] IN
    IF r.channel_id \in DOMAIN sv.channels
    THEN LET ch == sv.channels[r.channel_id]
             sv1 == IF r.mask # NoMask
                    THEN SendEach(sv, MemberAddrs(ch, sv.heap), TagFlowLeave, r.mask)
                    ELSE sv
         IN [sv1 EXCEPT !.channels[r.channel_id] = remove_remote(@, sv.heap, addr)]
    ELSE sv

\* ServerState::handle_eof
handle_eof(sv, addr) ==
    IF addr \notin DOMAIN sv.remotes THEN sv
    ELSE [LeaveChannel(sv, addr) EXCEPT !.remotes = MapDel(@, addr)]

\* Instant::duration_since: saturates at zero when `earlier` is later
DurationSince(later, earlier) == IF later >= earlier THEN later - earlier ELSE 0

\* a retain step that measures the time the way the console check does
CleanupRemote_Reversed(sv, addr, now, cfg) ==
    IF DurationSince(sv.heap[sv.remotes[addr]].last_active, now) > cfg.timeout_secs
    THEN [LeaveChannel(sv, addr) EXCEPT !.remotes = MapDel(@, addr)]
    ELSE sv

\* one step of remotes.retain in cleanup, for the endpoint it visits
CleanupRemote(sv, addr, now, cfg) ==
    IF DurationSince(now, sv.heap[sv.remotes[addr]].last_active) > cfg.timeout_secs
    THEN [LeaveChannel(sv, addr) EXCEPT !.remotes = MapDel(@, addr)]
    ELSE sv

RECURSIVE CleanupRemotes(_, _, _, _)
CleanupRemotes(sv, order, now, cfg) ==
    IF order = << >> THEN sv
    ELSE CleanupRemotes(CleanupRemote(sv, Head(order), now, cfg), Tail(order), now, cfg)

\* ServerState::cleanup (order: the order in which retain visits the map)
cleanup(sv, order, now, cfg) ==
    LET sv1 == [sv EXCEPT !.consoles =
                   [a \in {c \in DOMAIN sv.consoles :
                              ~(DurationSince(sv.consoles[c].last_active, now)
                                    > cfg.timeout_secs)}
                      |-> sv.consoles[a]]]
    IN CleanupRemotes(sv1, order, now, cfg)

\* Decoder::decode_float on an abstract Opus payload
DecodesToFrame(data) == data \in {OpusVoiced, OpusZero}
DecodedPcm(data) == IF data = OpusVoiced THEN VoicedFrame ELSE ZeroFrame

\* a jitter buffer that takes every decoded frame
JitterPush_Unbounded(jb, pcm) == Append(jb, pcm)

\* process_audio_tick: push a decoded frame unless the jitter buffer is full
JitterPush(jb, pcm) ==
    IF Len(jb) < JITTER_BUFFER_LEN THEN Append(jb, pcm) ELSE jb

\* process_audio_tick: decode incoming packets and fill jitter buffers
RECURSIVE DrainAudio(_, _)
DrainAudio(sv, queue) ==
    IF queue = << >> THEN [sv EXCEPT !.audio_rb = << >>]
    ELSE
    LET e == Head(queue)
        sv1 == IF e.addr \in DOMAIN sv.remotes /\ DecodesToFrame(e.data)
               THEN [sv EXCEPT !.heap[sv.remotes[e.addr]].jitter_buffer =
                                   JitterPush(@, DecodedPcm(e.data))]
               ELSE sv
    IN DrainAudio(sv1, Tail(queue))

\* process_audio_tick: pull one frame per remote into its channel's buffer
RECURSIVE PullFrames(_, _)
PullFrames(sv, addrs) ==
    IF addrs = {} THEN sv
    ELSE
    LET addr == CHOOSE a \in addrs : TRUE
        oid == sv.remotes[addr]
        r == sv.heap[oid]
        frame == IF r.jitter_buffer = << >> THEN ZeroFrame ELSE Head(r.jitter_buffer)
        sv1 == [sv EXCEPT !.heap[oid].jitter_buffer =
                              IF @ = << >> THEN @ ELSE Tail(@)]
        sv2 == IF r.channel_id \in DOMAIN sv1.channels
               THEN [sv1 EXCEPT !.channels[r.channel_id].buffers =
                                    MapPut(@, addr, frame)]
               ELSE sv1
    IN PullFrames(sv2, addrs \ {addr})

\* mixer::is_silent on an abstract frame
is_silent(frame) == frame = ZeroFrame

\* Channel::mix: the personalized mixes of one channel, member by member
RECURSIVE MixMembers(_, _, _, _)
MixMembers(sv, cid, members, processed) ==
    IF members = << >> THEN sv
    ELSE
    LET r == sv.heap[Head(members)]
        talkers == processed \ {r.addr}
        sv1 == IF /\ r.addr \in DOMAIN sv.channels[cid].buffers
                  /\ ~r.deaf
                  /\ talkers # {}
               THEN [sv EXCEPT !.out =
                        Append(@, [Packet(r.addr, TagAudio, "mix")
                                      EXCEPT !.talkers = talkers])]
               ELSE sv
    IN MixMembers(sv1, cid, Tail(members), processed)

\* Channel::mix
mix(sv, cid) ==
    LET ch == sv.channels[cid]
        processed == {a \in DOMAIN ch.buffers : ~is_silent(ch.buffers[a])}
        fs == [a \in DOMAIN ch.filter_states \cup processed |->
                  IF a \in processed THEN FilterRun ELSE ch.filter_states[a]]
        sv1 == MixMembers(sv, cid, ch.remotes, processed)
    IN [sv1 EXCEPT !.channels[cid].filter_states = fs,
                   !.channels[cid].buffers = [a \in DOMAIN ch.buffers |-> ZeroFrame]]

RECURSIVE MixChannels(_, _)
MixChannels(sv, cids) ==
    IF cids = {} THEN sv
    ELSE LET cid == CHOOSE c \in cids : \A d \in cids : c <= d
         IN MixChannels(mix(sv, cid), cids \ {cid})

\* ServerState::process_audio_tick
process_audio_tick(sv) ==
    LET sv1 == DrainAudio(sv, sv.audio_rb)
        sv2 == PullFrames(sv1, DOMAIN sv1.remotes)
    IN MixChannels(sv2, DOMAIN sv2.channels)

----------------------------------------------------------------------------
(* Console commands: voudp/src/console_cmd.rs *)

\* the console text is kept as the words split_whitespace yields

\* str::parse::<u32> on a word: the number, or -1 for Err
ParseU32(tok) ==
    IF \E n \in 0..MaxChannelId : ToString(n) = tok
    THEN CHOOSE n \in 0..MaxChannelId : ToString(n) = tok
    ELSE -1

\* parts[k..].join(" ")
RECURSIVE JoinWords(_, _)
JoinWords(parts, k) ==
    IF k > Len(parts) THEN ""
    ELSE IF k = Len(parts) THEN parts[k]
    ELSE parts[k] \o " " \o JoinWords(parts, k + 1)

\* the channels `find` may return for a name (HashMap iteration order)
FindByName(chans, name) == {id \in DOMAIN chans : chans[id].name = name}

\* the result of handle_command: the channel map and the reply
CmdResult(chans, reply) == [channels |-> chans, reply |-> reply]

\* the width of a channel id in bits: 32 in the program, fewer here, the
\* checker's integers being 32-bit signed
ChannelIdBits == 20
ChannelIdMod == 2 ^ ChannelIdBits

\* the largest channel id, u32::MAX in the program
ChannelIdMax == ChannelIdMod - 1

\* `id + 1` on channel ids in a build without overflow checks
wrapping_add(a, b) == (a + b) % ChannelIdMod

\* the largest key of the channel map
MaxKey(chans) == CHOOSE id \in DOMAIN chans : \A other \in DOMAIN chans : other <= id

\* the reply of "chans": "name (id)" per channel, joined with ", "
RECURSIVE ChansListing(_, _)
ChansListing(chans, ids) ==
    IF ids = {} THEN ""
    ELSE LET id == CHOOSE c \in ids : \A d \in ids : c <= d
             item == chans[id].name \o " (" \o ToString(id) \o ")"
         IN IF ids = {id} THEN item
            ELSE item \o ", " \o ChansListing(chans, ids \ {id})

\* a command handler whose del removes whatever channel the target names
handle_command_DelAny(cmd, parts, chans, found) ==
    IF cmd = "del" /\ Len(parts) >= 2
    THEN LET target == parts[2]
             id == IF ParseU32(target) # -1 THEN ParseU32(target)
                   ELSE IF FindByName(chans, target) # {} THEN found ELSE -1
         IN IF id \in DOMAIN chans
            THEN CmdResult(MapDel(chans, id), "deleted channel")
            ELSE CmdResult(chans, "channel not found")
    ELSE CmdResult(chans, "")

\* console_cmd::handle_command (found: the channel `find` returns, if any)
handle_command(cmd, parts, chans, found) ==
    CASE cmd = "help" -> CmdResult(chans, "you are connected to a voudp 0.1 server")
      [] cmd = "ping" -> CmdResult(chans, "pong")
      [] cmd = "list" ->
            CmdResult(chans, "global list cannot be displayed with crossterm")
      [] cmd = "rename" ->
            IF Len(parts) < 3
            THEN CmdResult(chans, "usage: rename <channel> <new-name>")
            ELSE LET ident == parts[2]
                     new_name == JoinWords(parts, 3)
                 IN IF FindByName(chans, ident) # {}
                    THEN CmdResult([chans EXCEPT ![found].name = new_name],
                                   "renamed channel '" \o chans[found].name
                                       \o "' -> '" \o new_name \o "'")
                    ELSE CmdResult(chans, "channel '" \o ident \o "' not found")
      [] cmd = "chans" -> CmdResult(chans, ChansListing(chans, DOMAIN chans))
      [] cmd = "create" ->
            IF Len(parts) < 2
            THEN CmdResult(chans, "usage: create <channel_name>")
            ELSE LET name == JoinWords(parts, 2)
                     new_id == IF DOMAIN chans = {} THEN 1
                               ELSE wrapping_add(MaxKey(chans), 1)
                 IN CmdResult(MapPut(chans, new_id, ChannelNew(name, new_id)),
                              "created channel '" \o name \o "' with id "
                                  \o ToString(new_id))
      [] cmd = "del" ->
            IF Len(parts) < 2
            THEN CmdResult(chans, "usage: del <channel_id|channel_name>")
            ELSE LET target == parts[2]
                     maybe_channel_id == ParseU32(target)
                     \* -1: None
                     channel_id_to_delete ==
                         IF maybe_channel_id # -1
                         THEN (IF maybe_channel_id = 1 THEN -1 ELSE maybe_channel_id)
                         ELSE IF FindByName(chans, target) # {} THEN found ELSE -1
                 IN IF channel_id_to_delete # -1
                    THEN IF channel_id_to_delete = 1
                         THEN CmdResult(chans,
                                "cannot delete the default channel defined by the voudp protocol")
                         ELSE IF channel_id_to_delete \in DOMAIN chans
                         THEN CmdResult(MapDel(chans, channel_id_to_delete),
                                "deleted channel '" \o chans[channel_id_to_delete].name
                                    \o "' (id " \o ToString(channel_id_to_delete)
                                    \o ") and moved users to default")
                         ELSE CmdResult(chans, "channel not found")
                    ELSE CmdResult(chans, "channel not found")
      [] OTHER ->
            CmdResult(chans, "unknown command. read the manual on executing remote commands")

\* the name handle_command looks up with `find`, "" when it looks up none
LookedUp(parts) ==
    IF parts = << >> THEN ""
    ELSE IF parts[1] = "rename" /\ Len(parts) >= 3 THEN parts[2]
    ELSE IF parts[1] = "del" /\ Len(parts) >= 2 /\ ParseU32(parts[2]) = -1 THEN parts[2]
    ELSE ""

\* what `find` can return for a command: any channel of that name, 0 if none
FindChoices(chans, parts) ==
    IF FindByName(chans, LookedUp(parts)) = {} THEN {0}
    ELSE FindByName(chans, LookedUp(parts))

\* ServerState::handle_console_command (parts: the words of the request)
handle_console_command(sv, addr, parts, found) ==
    IF parts # << >>
    THEN LET res == handle_command(parts[1], parts, sv.channels, found)
         IN [sv EXCEPT !.channels = res.channels,
                       !.out = Append(@, Packet(addr, TagNone, res.reply))]
    ELSE [sv EXCEPT !.out =
             Append(@, Packet(addr, TagNone, "server received your empty message"))]

\* ServerState::handle_console_eof
handle_console_eof(sv, addr) == [sv EXCEPT !.consoles = MapDel(@, addr)]

\* ServerState::handle_console
handle_console(sv, addr, data, found) ==
    CASE data[1] = TagConsoleCmd -> handle_console_command(sv, addr, Tail(data), found)
      [] data[1] = TagEof -> handle_console_eof(sv, addr)
      [] data[1] = TagConsoleKeepalive -> sv
      [] OTHER -> sv

\* a handler that treats a bad frame as the sender's EOF
handle_bad_DropsPeer(sv, addr) == handle_eof(sv, addr)

\* ServerState::handle_bad: the notice of socket.send_bad_packet_notice
handle_bad(sv, addr) ==
    [sv EXCEPT !.out = Append(@, Packet(addr, TagNone, "bad packet notice"))]

\* ServerState::register_console (data: the password after the tag)
register_console(sv, addr, data, now) ==
    IF data = << PASSWORD >>
    THEN [sv EXCEPT !.consoles = MapPut(@, addr, [last_active |-> now])]
    ELSE handle_bad(sv, addr)

\* Text payloads are kept as sequences of string tokens: << >> is the empty
\* string, and the token NonUtf8 stands for bytes that are not valid UTF-8.
NonUtf8 == "\\xff"

\* String::from_utf8(data.to_vec()).is_ok()
FromUtf8Ok(data) == \A i \in DOMAIN data : data[i] # NonUtf8

\* the String that from_utf8 yields for a payload of at most one token
Utf8String(data) == IF data = << >> THEN "" ELSE data[1]

\* a broadcast that announces every mask as a join
broadcast_join_masked_AlwaysJoin(sv, channel_id, new_mask, old_mask) ==
    IF channel_id \in DOMAIN sv.channels
    THEN SendEach(sv, MemberAddrs(sv.channels[channel_id], sv.heap), TagFlowJoin, new_mask)
    ELSE sv

\* ServerState::broadcast_join_masked (old_mask: NoMask for None)
broadcast_join_masked(sv, channel_id, new_mask, old_mask) ==
    LET peer_addresses ==
            IF channel_id \in DOMAIN sv.channels
            THEN MemberAddrs(sv.channels[channel_id], sv.heap) ELSE << >>
    IN IF old_mask # NoMask
       THEN SendEach(sv, peer_addresses, TagFlowRenick, << old_mask, new_mask >>)
       ELSE SendEach(sv, peer_addresses, TagFlowJoin, new_mask)

\* ServerState::handle_mask (data: the bytes after the tag)
handle_mask(sv, addr, data) ==
    IF addr \notin DOMAIN sv.remotes THEN sv
    ELSE IF ~FromUtf8Ok(data) THEN sv
    ELSE
    LET oid == sv.remotes[addr]
        old_mask == sv.heap[oid].mask
        channel_id == sv.heap[oid].channel_id
        new_mask == Utf8String(data)
    IN IF new_mask = "" THEN sv
       ELSE broadcast_join_masked([sv EXCEPT !.heap[oid].mask = new_mask],
                                  channel_id, new_mask, old_mask)

\* ServerState::handle_list: the reply names the sender's channel and lists
\* every channel (kept as the channel ids)
handle_list(sv, addr, now) ==
    IF addr \notin DOMAIN sv.remotes THEN sv
    ELSE LET oid == sv.remotes[addr]
             sv1 == [sv EXCEPT !.heap[oid].last_active = now]
         IN [sv1 EXCEPT !.out =
                Append(@, Packet(addr, TagList,
                                 << sv.heap[oid].channel_id, DOMAIN sv.channels >>))]

\* handle_chat: one copy per entry of the member list, in order
\* [0x06][mask][0x01][is_self][message]
RECURSIVE ChatCopies(_, _, _, _, _)
ChatCopies(sv, peers, sender_addr, mask, data) ==
    IF peers = << >> THEN sv
    ELSE LET is_self == IF Head(peers) = sender_addr THEN 1 ELSE 0
             msg_packet == Packet(Head(peers), TagChat, << mask, 1, is_self >> \o data)
         IN ChatCopies([sv EXCEPT !.out = Append(@, msg_packet)],
                       Tail(peers), sender_addr, mask, data)

\* ServerState::handle_chat (data: the message bytes after the tag)
handle_chat(sv, addr, data) ==
    IF addr \notin DOMAIN sv.remotes THEN sv
    ELSE
    LET mask == sv.heap[sv.remotes[addr]].mask
        chan_id == sv.heap[sv.remotes[addr]].channel_id
    IN IF chan_id \notin DOMAIN sv.channels THEN sv
       ELSE IF mask # NoMask
       THEN IF ~FromUtf8Ok(data) THEN sv
            ELSE ChatCopies(sv, MemberAddrs(sv.channels[chan_id], sv.heap),
                            addr, mask, data)
       ELSE [sv EXCEPT !.out = Append(@, Packet(addr, TagUnauthChat, << >>))]

\* util::parse_control_packet: the request, or 0 for Err
parse_control_packet(data) ==
    IF data = << >> THEN 0
    ELSE IF data[1] \in {SetDeafen, SetUndeafen, SetMute, SetUnmute} THEN data[1]
    ELSE 0

\* ServerState::handle_ctrl
handle_ctrl(sv, addr, data) ==
    IF addr \notin DOMAIN sv.remotes THEN sv
    ELSE
    LET oid == sv.remotes[addr]
        req == parse_control_packet(data)
    IN CASE req = SetDeafen -> [sv EXCEPT !.heap[oid].deaf = TRUE]
         [] req = SetUndeafen -> [sv EXCEPT !.heap[oid].deaf = FALSE]
         [] req = SetMute -> [sv EXCEPT !.heap[oid].mute = TRUE]
         [] req = SetUnmute -> [sv EXCEPT !.heap[oid].mute = FALSE]
         [] OTHER -> sv

\* CommandSystem::register_default_commands: the one registered command
ServerCommands ==
    { [name |-> "/test", aliases |-> {"/"}, requires_auth |-> TRUE,
       admin_only |-> FALSE] }

\* the names and aliases get_command resolves
CommandNames == UNION { {c.name} \cup c.aliases : c \in ServerCommands }
\* the words of the model that start with '/'
SlashWords == {"/test", "/", "/nope"}

\* CommandSystem::get_command: the command a name or an alias stands for
get_command(name) ==
    CHOOSE c \in ServerCommands : name = c.name \/ name \in c.aliases

\* CommandSystem::parse_command (input: the words of the text): is a command found
parse_command(input) ==
    /\ input # << >>
    /\ input[1] \in SlashWords
    /\ input[1] \in CommandNames

\* handle_cmd passes is_admin = false for every remote
is_admin == FALSE

\* a dispatcher that does not ask for a mask
execute_command_NoAuthGate(input, sender_mask) ==
    IF ~parse_command(input)
    THEN [kind |-> "error", msg |-> "Unknown command. Type /help for available commands."]
    ELSE [kind |-> "silent", msg |-> ""]

\* ServerState::execute_command: "error" with the message, or "silent" (the
\* command's function is never called)
execute_command(input, sender_mask) ==
    IF ~parse_command(input)
    THEN [kind |-> "error", msg |-> "Unknown command. Type /help for available commands."]
    ELSE LET command == get_command(input[1]) IN
         IF command.requires_auth /\ sender_mask = NoMask
         THEN [kind |-> "error", msg |-> "You need to set a nickname first with /nick"]
         ELSE IF command.admin_only /\ ~is_admin
         THEN [kind |-> "error", msg |-> "You don't have permission to use this command."]
         ELSE [kind |-> "silent", msg |-> ""]

\* ServerState::handle_cmd
handle_cmd(sv, addr, data) ==
    IF ~FromUtf8Ok(data) THEN sv
    ELSE IF addr \notin DOMAIN sv.remotes THEN sv
    ELSE
    LET result == execute_command(data, sv.heap[sv.remotes[addr]].mask)
    IN CASE result.kind = "success" ->
                [sv EXCEPT !.out = Append(@, Packet(addr, TagCommandResponse, result.msg))]
         [] result.kind = "error" ->
                [sv EXCEPT !.out = Append(@, Packet(addr, TagCommandError, result.msg))]
         [] OTHER -> sv

\* ServerState::handle_sync_commands: the list of commands for a non-admin
handle_sync_commands(sv, addr) ==
    [sv EXCEPT !.out = Append(@, Packet(addr, TagSyncCommands, << "/test" >>))]

\* a dispatcher that gives the endpoints of consoles the client table too
handle_packet_NoConsoleTable(sv, addr, data, now, cfg, found) ==
    IF data = << >> THEN sv
    ELSE CASE data[1] = TagJoin -> handle_join(sv, addr, Tail(data), now)
           [] data[1] = TagAudio -> handle_audio(sv, addr, Tail(data), now, cfg)
           [] data[1] = TagEof -> handle_eof(sv, addr)
           [] data[1] = TagMask -> handle_mask(sv, addr, Tail(data))
           [] data[1] = TagList -> handle_list(sv, addr, now)
           [] data[1] = TagChat -> handle_chat(sv, addr, Tail(data))
           [] data[1] = TagCtrl -> handle_ctrl(sv, addr, Tail(data))
           [] data[1] = TagSyncCommands -> handle_sync_commands(sv, addr)
           [] data[1] = TagCmd -> handle_cmd(sv, addr, Tail(data))
           [] data[1] = TagRegisterConsole -> register_console(sv, addr, Tail(data), now)
           [] OTHER -> sv

\* ServerState::handle_packet
handle_packet(sv, addr, data, now, cfg, found) ==
    IF data = << >> THEN sv
    ELSE IF addr \in DOMAIN sv.consoles THEN handle_console(sv, addr, data, found)
    ELSE CASE data[1] = TagJoin -> handle_join(sv, addr, Tail(data), now)
           [] data[1] = TagAudio -> handle_audio(sv, addr, Tail(data), now, cfg)
           [] data[1] = TagEof -> handle_eof(sv, addr)
           [] data[1] = TagMask -> handle_mask(sv, addr, Tail(data))
           [] data[1] = TagList -> handle_list(sv, addr, now)
           [] data[1] = TagChat -> handle_chat(sv, addr, Tail(data))
           [] data[1] = TagCtrl -> handle_ctrl(sv, addr, Tail(data))
           [] data[1] = TagSyncCommands -> handle_sync_commands(sv, addr)
           [] data[1] = TagCmd -> handle_cmd(sv, addr, Tail(data))
           [] data[1] = TagRegisterConsole -> register_console(sv, addr, Tail(data), now)
           [] OTHER -> sv

----------------------------------------------------------------------------
(* The server loop: ServerState::run *)

\* ServerState::new
ServerNew ==
    /\ remotes = << >>
    /\ heap = << >>
    /\ consoles = << >>
    /\ channels = DefaultChannels
    /\ audio_rb = << >>
    /\ config \in {[max_users |-> n, timeout_secs |-> TimeoutSecs] : n \in 1..MaxUsers}
    /\ clock_s = 0
    /\ out = << >>
    /\ last = [op |-> "new", addr |-> "", data |-> << >>]

\* no chat forward is being followed
NoChat == [stage |-> "none"]

Init == SocketsCreated /\ ServerNew /\ codec = NoChat

\* the state a handler leaves behind
Commit(sv, op, addr, data) ==
    LET f == DropUnreferenced(sv) IN
    /\ remotes' = f.remotes
    /\ heap' = f.heap
    /\ consoles' = f.consoles
    /\ channels' = f.channels
    /\ audio_rb' = f.audio_rb
    /\ out' = f.out
    /\ last' = [op |-> op, addr |-> addr, data |-> data]
    /\ UNCHANGED << config, clock_s, sockVars, threadVars >>

\* run: recv_from returned `data` from `addr`
Recv(op, addr, data, found) ==
    Commit(handle_packet(St, addr, data, clock_s, config, found), op, addr, data)

\* the channels JOIN frames of the model name
JoinChannels == {0, 2}
\* the Opus payloads AUDIO frames of the model carry
AudioPayloads == {OpusVoiced, OpusZero, OpusCorrupt}
\* the passwords a console offers
Passwords == {PASSWORD, "guess"}
\* the command lines the console sends
ConsoleCommands ==
    { << "create", "jam" >>, << "del", "2" >>, << "del", "jam" >>,
      << "rename", "music", "jam" >> }

\* the member entries of all channels together
RECURSIVE TotalMembers(_, _)
TotalMembers(chans, ids) ==
    IF ids = {} THEN 0
    ELSE LET c == CHOOSE x \in ids : TRUE
         IN Len(chans[c].remotes) + TotalMembers(chans, ids \ {c})

\* a JOIN frame, as long as the member lists stay within the model's bound
RecvJoin(addr, c) ==
    LET data == << TagJoin >> \o to_be_bytes(c)
        sv == handle_packet(St, addr, data, clock_s, config, 0)
    IN /\ TotalMembers(sv.channels, DOMAIN sv.channels) <= MaxMembers
       /\ Commit(sv, "join", addr, data)

RecvAudio(addr, data) == Recv("audio", addr, << TagAudio >> \o data, 0)

RecvEof(addr) == Recv("eof", addr, << TagEof >>, 0)

\* the masks, messages and control bytes the clients of the model send
Masks == {"al", "bo"}
ChatMessages == { << "hi" >> }

RecvMask(addr, data) == Recv("mask", addr, << TagMask >> \o data, 0)

RecvList(addr) == Recv("list", addr, << TagList >>, 0)

RecvChat(addr, data) == Recv("chat", addr, << TagChat >> \o data, 0)

RecvCtrl(addr, data) == Recv("ctrl", addr, << TagCtrl >> \o data, 0)

RecvSyncCommands(addr) == Recv("sync", addr, << TagSyncCommands >>, 0)

RecvCmd(addr, data) == Recv("cmd", addr, << TagCmd >> \o data, 0)

\* an AUDIO frame of an endpoint that has none waiting in the queue
RecvAudioPaced(addr, data) ==
    /\ \A i \in DOMAIN audio_rb : audio_rb[i].addr # addr
    /\ RecvAudio(addr, data)

RecvRegisterConsole(addr, pw) ==
    /\ addr \notin DOMAIN consoles
    /\ Recv("register", addr, << TagRegisterConsole, pw >>, 0)

RecvConsoleCmd(addr, parts) ==
    /\ addr \in DOMAIN consoles
    /\ parts[1] = "create" => \A id \in DOMAIN channels : id < MaxChannelId
    /\ \E found \in FindChoices(channels, parts) :
          Recv("console", addr, << TagConsoleCmd >> \o parts, found)

\* the orders in which retain can visit the keys of a map
Orders(keys) ==
    {o \in [1..Cardinality(keys) -> keys] : \A i, j \in DOMAIN o : o[i] = o[j] => i = j}

\* run: the tick is due
Tick ==
    \E order \in Orders(DOMAIN remotes) :
        Commit(cleanup(process_audio_tick(St), order, clock_s, config), "tick", "", << >>)

\* time passes
AdvanceClockS ==
    /\ clock_s < MaxClockS
    /\ clock_s' = clock_s + 1
    /\ UNCHANGED << remotes, heap, consoles, channels, audio_rb, config, out, last >>
    /\ UNCHANGED << sockVars, threadVars >>

NextServer ==
    \/ \E addr \in Addrs, c \in JoinChannels : RecvJoin(addr, c)
    \/ \E addr \in Addrs : RecvEof(addr)
    \/ Tick
    \/ AdvanceClockS

NextConsole ==
    \/ \E addr \in Addrs, c \in JoinChannels : RecvJoin(addr, c)
    \/ \E addr \in Addrs : RecvEof(addr)
    \/ \E addr \in ConsoleAddrs, pw \in Passwords : RecvRegisterConsole(addr, pw)
    \/ \E addr \in ConsoleAddrs, parts \in ConsoleCommands : RecvConsoleCmd(addr, parts)
    \/ \E addr \in Addrs, msg \in ChatMessages : RecvChat(addr, msg)
    \/ Tick

\* the server specifications start from one pair of nonce prefixes
InitPrefixes == Init /\ nonce_prefix = [s \in Socks |-> IF s = Sender THEN 7 ELSE 9]

\* the membership specifications run the smallest server
InitServer == InitPrefixes /\ config.max_users = 1

SpecServer == InitServer /\ [][NextServer]_vars

SpecConsole == InitServer /\ [][NextConsole]_vars

\* the endpoints that stream in the audio specification
Streamers == {"a1"}

\* a streamer that is not connected joins the default channel
JoinDefault(addr) ==
    /\ addr \notin DOMAIN remotes
    /\ Recv("join", addr, << TagJoin >> \o to_be_bytes(1), 0)

\* a decoded all-zero frame is waiting in a jitter buffer or in the queue
ZeroFramePending ==
    \/ \E i \in DOMAIN audio_rb : audio_rb[i].data = OpusZero
    \/ \E o \in DOMAIN heap : \E i \in DOMAIN heap[o].jitter_buffer :
           heap[o].jitter_buffer[i] = ZeroFrame

\* the stream is voiced, with at most one all-zero frame under way at a time
RecvAudioStream(addr, data) ==
    /\ data = OpusZero => ~ZeroFramePending
    /\ RecvAudio(addr, data)

NextAudio ==
    \/ \E addr \in Streamers : JoinDefault(addr)
    \/ \E addr \in Streamers, data \in AudioPayloads : RecvAudioStream(addr, data)
    \/ \E addr \in Streamers : RecvEof(addr)
    \/ Tick

\* the audio specification runs the largest server
InitAudio == InitPrefixes /\ config.max_users = MaxUsers

SpecAudio == InitAudio /\ [][NextAudio]_vars

\* two endpoints join, talk, deafen and leave
NextMix ==
    \/ \E addr \in Addrs, c \in JoinChannels : RecvJoin(addr, c)
    \/ \E addr \in Addrs : RecvAudioPaced(addr, OpusVoiced)
    \/ \E addr \in Addrs, req \in {SetDeafen, SetUndeafen} : RecvCtrl(addr, << req >>)
    \/ \E addr \in Addrs : RecvEof(addr)
    \/ Tick

SpecMix == InitAudio /\ [][NextMix]_vars

\* the datagrams an endpoint that never joined sends
StrangerPackets ==
    { << TagAudio >> \o OpusVoiced, << TagEof >>, << TagMask, "al" >>, << TagList >>,
      << TagChat, "hi" >>, << TagCtrl, SetDeafen >>, << TagSyncCommands >>,
      << TagCmd, "/test" >> }

\* a datagram from an endpoint that is neither a remote nor a console
RecvFromStranger(addr, data) ==
    /\ addr \notin DOMAIN remotes
    /\ addr \notin DOMAIN consoles
    /\ Recv("stranger", addr, data, 0)

\* endpoints join, move between channels, take masks and chat
NextChat ==
    \/ \E addr \in Addrs, c \in JoinChannels : RecvJoin(addr, c)
    \/ \E addr \in Addrs, m \in Masks : RecvMask(addr, << m >>)
    \/ \E addr \in Addrs, msg \in ChatMessages : RecvChat(addr, msg)
    \/ \E addr \in Addrs, data \in StrangerPackets : RecvFromStranger(addr, data)

SpecChat == InitServer /\ [][NextChat]_vars

\* endpoints join, take a mask and refresh their activity with LIST, time
\* passes and the tick runs cleanup
NextTimeout ==
    \/ \E addr \in Addrs, c \in JoinChannels : RecvJoin(addr, c)
    \/ \E addr \in Addrs : RecvMask(addr, << addr >>)
    \/ \E addr \in Addrs : RecvList(addr)
    \/ Tick
    \/ AdvanceClockS

\* some remote has been idle for longer than the timeout: the next tick
\* removes it, so a Tick step that changes the state is enabled
ReapDue ==
    \E a \in DOMAIN remotes :
        clock_s - heap[remotes[a]].last_active > config.timeout_secs

\* run compares the clock with next_tick on every pass of its loop, so the
\* clock keeps advancing and a tick that has a remote to reap is not
\* postponed for ever: weak fairness of Tick, asked only where ReapDue shows
\* the step enabled
TimeoutFairness ==
    /\ WF_vars(AdvanceClockS)
    /\ ([]<>(~ReapDue) \/ []<><<Tick>>_vars)

SpecTimeout == InitServer /\ [][NextTimeout]_vars /\ TimeoutFairness

\* a console registers and sends commands next to joining endpoints, time
\* passes and the tick runs cleanup
NextIdleConsole ==
    \/ \E addr \in Addrs : RecvJoin(addr, 2)
    \/ \E addr \in ConsoleAddrs : RecvRegisterConsole(addr, PASSWORD)
    \/ \E addr \in ConsoleAddrs : RecvConsoleCmd(addr, << "create", "jam" >>)
    \/ Tick
    \/ AdvanceClockS

SpecIdleConsole == InitServer /\ [][NextIdleConsole]_vars /\ TimeoutFairness

\* datagrams that decrypt but are not well-formed: an unknown tag, a JOIN
\* with fewer than 4 bytes of channel id, MASK, CHAT and CMD bodies that are
\* not UTF-8, a CTRL with an unknown request byte and one with none
MalformedPackets ==
    { << 99 >>, << TagJoin, 0, 0 >>, << TagMask, NonUtf8 >>, << TagChat, NonUtf8 >>,
      << TagCmd, NonUtf8 >>, << TagCtrl, 9 >>, << TagCtrl >> }

RecvMalformed(addr, data) == Recv("malformed", addr, data, 0)

\* run: recv_from returns Err for a frame shorter than the nonce or one that
\* does not decrypt, and the loop calls handle_bad
RecvBadFrame(addr) == Commit(handle_bad(St, addr), "frame", addr, << >>)

\* endpoints join, take a mask and send malformed datagrams between ticks
NextMalformed ==
    \/ \E addr \in Addrs, c \in JoinChannels : RecvJoin(addr, c)
    \/ \E addr \in Addrs : RecvMask(addr, << addr >>)
    \/ \E addr \in Addrs, data \in MalformedPackets : RecvMalformed(addr, data)
    \/ \E addr \in Addrs : RecvBadFrame(addr)
    \/ Tick

SpecMalformed == InitServer /\ [][NextMalformed]_vars

\* the command lines a console aims at the default channel
DefaultChannelCommands ==
    { << "del", "1" >>, << "del", "general" >>, << "del", "jam" >>,
      << "rename", "general", "jam" >>, << "create", "general" >> }

\* a console works on the default channel while endpoints join it, leave
\* and time out
NextDefaultChannel ==
    \/ \E addr \in Addrs : RecvJoin(addr, 1)
    \/ \E addr \in Addrs : RecvEof(addr)
    \/ \E addr \in ConsoleAddrs : RecvRegisterConsole(addr, PASSWORD)
    \/ \E addr \in ConsoleAddrs, parts \in DefaultChannelCommands :
          RecvConsoleCmd(addr, parts)
    \/ Tick

SpecDefaultChannel == InitServer /\ [][NextDefaultChannel]_vars

\* the texts a remote sends as CMD
CmdInputs == { << "/test" >>, << "/", "x" >>, << "/nope" >>, << "hi" >> }

\* endpoints join, take a mask and send commands
NextCmd ==
    \/ \E addr \in Addrs, c \in JoinChannels : RecvJoin(addr, c)
    \/ \E addr \in Addrs, m \in Masks : RecvMask(addr, << m >>)
    \/ \E addr \in Addrs, input \in CmdInputs : RecvCmd(addr, input)

SpecCmd == InitServer /\ [][NextCmd]_vars

\* the channel ids of the JOINs at the edges of the id range: 0, an id
\* below u16::MAX, u16::MAX itself
EdgeChannels == {0, 2, U16_MAX - 1, U16_MAX}

NextJoinIds ==
    \/ \E addr \in Addrs, c \in EdgeChannels : RecvJoin(addr, c)
    \/ \E addr \in Addrs : RecvEof(addr)
    \/ Tick

SpecJoinIds == InitServer /\ [][NextJoinIds]_vars

\* the channel ids of the JOINs that bring the largest id into the map
WrapChannels == {0, ChannelIdMax}

\* the console sends `create <name>`. With the largest id in the map,
\* `id + 1` overflows: the handler panics in a build with overflow checks
\* and the server is gone, or the id wraps to 0 in a build without.
RecvConsoleCreate(addr, name) ==
    LET data == << TagConsoleCmd, "create", name >> IN
    /\ addr \in DOMAIN consoles
    /\ \A id \in DOMAIN channels : id < MaxChannelId \/ id = ChannelIdMax
    /\ IF DOMAIN channels # {} /\ MaxKey(channels) = ChannelIdMax
       THEN \/ Recv("console", addr, data, 0)
            \/ Commit(St, "panic", addr, data)
       ELSE Recv("console", addr, data, 0)

\* the server runs until a handler panics
Running == last.op # "panic"

NextCreate ==
    \/ \E addr \in Addrs, c \in WrapChannels : Running /\ RecvJoin(addr, c)
    \/ \E addr \in Addrs : Running /\ RecvEof(addr)
    \/ \E addr \in ConsoleAddrs : Running /\ RecvRegisterConsole(addr, PASSWORD)
    \/ \E addr \in ConsoleAddrs : Running /\ RecvConsoleCreate(addr, "jam")
    \/ Running /\ Tick

SpecCreate == InitServer /\ [][NextCreate]_vars

\* the endpoint that joins as a client and registers as a console
DualAddrs == {"a1"}

NextConsoleTable ==
    \/ \E addr \in DualAddrs, c \in {1, 2} : RecvJoin(addr, c)
    \/ \E addr \in DualAddrs : RecvAudioPaced(addr, OpusVoiced)
    \/ \E addr \in DualAddrs : RecvMask(addr, << addr >>)
    \/ \E addr \in DualAddrs, msg \in ChatMessages : RecvChat(addr, msg)
    \/ \E addr \in DualAddrs : RecvCtrl(addr, << SetDeafen >>)
    \/ \E addr \in DualAddrs : RecvRegisterConsole(addr, PASSWORD)
    \/ \E addr \in DualAddrs : RecvEof(addr)
    \/ Tick

SpecConsoleTable == InitServer /\ [][NextConsoleTable]_vars

\* process_audio_tick: the input frames of every channel once one frame per
\* remote is pulled, before the channels are mixed
ChannelInputs(sv) ==
    LET sv1 == DrainAudio(sv, sv.audio_rb)
        sv2 == PullFrames(sv1, DOMAIN sv1.remotes)
    IN [c \in DOMAIN sv2.channels |-> sv2.channels[c].buffers]

\* run: the tick is due; the step keeps the inputs the mixer was given
TickTraced ==
    \E order \in Orders(DOMAIN remotes) :
        Commit(cleanup(process_audio_tick(St), order, clock_s, config),
               "tick", "", << ChannelInputs(St) >>)

\* an AUDIO frame of a known remote while fewer than MaxBacklog of its frames
\* wait in the queue and in its jitter buffer
RecvAudioBacklog(addr, data) ==
    /\ addr \in DOMAIN remotes
    /\ Len(heap[remotes[addr]].jitter_buffer) + Len(audio_rb) < MaxBacklog
    /\ RecvAudio(addr, data)

NextJitter ==
    \/ \E addr \in Addrs : RecvJoin(addr, 2)
    \/ \E addr \in Addrs, data \in AudioPayloads : RecvAudioBacklog(addr, data)
    \/ \E addr \in ConsoleAddrs : RecvRegisterConsole(addr, PASSWORD)
    \/ \E addr \in ConsoleAddrs : RecvConsoleCmd(addr, << "del", "2" >>)
    \/ TickTraced

SpecJitter == InitAudio /\ [][NextJitter]_vars

\* the plaintext a handler passes to socket.send_to for a packet
Plaintext(pkt) ==
    IF pkt.tag = TagChat THEN << TagChat >> \o pkt.body ELSE << pkt.tag, pkt.body >>

\* nonce_counter after n calls of send_to
RECURSIVE NonceAfter(_, _)
NonceAfter(c, n) == IF n = 0 THEN c ELSE NonceAfter(FetchAddNonce(c), n - 1)

\* the datagrams socket.send_to builds for the packets of a handler, in order
SentDatagrams(s, pkts) ==
    [i \in DOMAIN pkts |->
        Datagram(s, pkts[i].to,
                 AeadFrame(SharedKey,
                           NonceBytes(nonce_prefix[s], NonceAfter(nonce_counter[s], i - 1)),
                           Plaintext(pkts[i])))]

\* the state a handler leaves behind in the server and in its socket: every
\* packet goes out through send_to, which seals it and stores nothing.  The
\* endpoints' sockets are outside the model, so the datagrams are kept in the
\* history of the wire only.
CommitSent(sv, op, addr, data) ==
    LET f == DropUnreferenced(sv)
        ds == SentDatagrams(Sender, f.out)
    IN
    /\ Len(nonce_log[Sender]) + Len(f.out) <= MaxWireSends
    /\ remotes' = f.remotes
    /\ heap' = f.heap
    /\ consoles' = f.consoles
    /\ channels' = f.channels
    /\ audio_rb' = f.audio_rb
    /\ out' = f.out
    /\ last' = [op |-> op, addr |-> addr, data |-> data]
    /\ nonce_counter' = [nonce_counter EXCEPT ![Sender] = NonceAfter(@, Len(f.out))]
    /\ nonce_log' = [nonce_log EXCEPT ![Sender] =
                        @ \o [i \in DOMAIN ds |-> ds[i].frame.nonce]]
    /\ wire' = wire \cup {ds[i] : i \in DOMAIN ds}
    /\ UNCHANGED << config, clock_s, nonce_prefix, seq_counter, pending, net,
                    clock_ms, delivered, rel_sent, lost, acks, acks_lost,
                    abandoned, app_sends, threadVars >>

\* run: recv_from returned `data` from `addr`, and the replies go out
RecvSent(op, addr, data) ==
    CommitSent(handle_packet(St, addr, data, clock_s, config, 0), op, addr, data)

\* run: the tick is due, and the mixes go out
TickSent ==
    \E order \in Orders(DOMAIN remotes) :
        CommitSent(cleanup(process_audio_tick(St), order, clock_s, config),
                   "tick", "", << >>)

\* endpoints join channel 2, take a mask, chat and talk; the server's
\* packets leave through its socket
NextWire ==
    \/ \E addr \in Addrs :
          /\ addr \notin DOMAIN remotes
          /\ RecvSent("join", addr, << TagJoin >> \o to_be_bytes(2))
    \/ \E addr \in Addrs : RecvSent("mask", addr, << TagMask, addr >>)
    \/ \E addr \in Addrs, msg \in ChatMessages :
          RecvSent("chat", addr, << TagChat >> \o msg)
    \/ \E addr \in Addrs :
          /\ \A i \in DOMAIN audio_rb : audio_rb[i].addr # addr
          /\ RecvSent("audio", addr, << TagAudio >> \o OpusVoiced)
    \/ TickSent

SpecWire == InitAudio /\ [][NextWire]_vars

\* a pending packet of some socket is due: the next tick_reliable resends
\* it or gives it up
TickDue ==
    \E s \in Socks : \E q \in DOMAIN pending[s] :
        \/ pending[s][q].retries >= max_retries
        \/ clock_ms - pending[s][q].last_sent >= RetransmitTimeout

\* time passes between two runs of the tick routine: the routine is run
\* more often than the clock of the model steps
AdvanceClockPaced == ~TickDue /\ AdvanceClock

NextRetry ==
    \/ \E payload \in ReliablePayloads : SendReliable(Sender, payload, Peer(Sender))
    \/ \E s \in Socks : RecvFrom(s)
    \/ \E s \in Socks : TickReliable(s)
    \/ Drop
    \/ AdvanceClockPaced

\* the tick routine is run again and again, and time does not stop
RetryFairness == WF_vars(TickReliable(Sender)) /\ WF_vars(AdvanceClockPaced)

\* the socket specifications start from one server configuration
InitSock == InitServer

SpecSock == InitSock /\ [][NextSock]_vars

SpecRetry == InitSock /\ [][NextRetry]_vars /\ RetryFairness

\* an endpoint that is not the peer of any reliable send but derives the key
\* from the same passphrase (a second client of the same server)
Outsider == "oth"

\* the outsider seals an ACK for sequence q and sends it to socket s
OutsiderAck(s, q) ==
    LET d == Datagram(Outsider, s, AeadFrame(SharedKey, NonceBytes(Outsider, q), AckPlain(q))) IN
        /\ d \notin wire
        /\ net' = net (+) SetToBag({d})
        /\ wire' = wire \cup {d}
        /\ UNCHANGED << nonce_counter, nonce_prefix, seq_counter, pending, clock_ms,
                        nonce_log, delivered, rel_sent, lost, acks, acks_lost,
                        abandoned, app_sends, threadVars, srvVars >>

NextAck ==
    \/ \E payload \in ReliablePayloads : SendReliable(Sender, payload, Peer(Sender))
    \/ \E s \in Socks : RecvFrom(s)
    \/ \E s \in Socks : TickReliable(s)
    \/ \E q \in 1..MaxSends : OutsiderAck(Sender, q)
    \/ Drop
    \/ AdvanceClock

SpecAck == InitSock /\ [][NextAck]_vars

\* the outsider sends socket s a sealed reliable packet with sequence q, as
\* many packets as the application sends
OutsiderReliable(s, q, payload) ==
    LET d == Datagram(Outsider, s,
                      AeadFrame(SharedKey, NonceBytes(Outsider, q), ReliablePacket(q, payload)))
    IN  /\ d \notin wire
        /\ Cardinality({e \in wire : e.src = Outsider}) < MaxSends
        /\ net' = net (+) SetToBag({d})
        /\ wire' = wire \cup {d}
        /\ UNCHANGED << nonce_counter, nonce_prefix, seq_counter, pending, clock_ms,
                        nonce_log, delivered, rel_sent, lost, acks, acks_lost,
                        abandoned, app_sends, threadVars, srvVars >>

\* a network that loses nothing: a datagram leaves it only through recv_from
NextRecv ==
    \/ \E buf \in PlainPayloads : SendTo(Sender, buf, Peer(Sender))
    \/ \E payload \in ReliablePayloads : SendReliable(Sender, payload, Peer(Sender))
    \/ \E s \in Socks, q \in 1..MaxSends, payload \in ReliablePayloads \cup {<< TagList >>, << TagEof >>, << TagSyncCommands >>} :
          OutsiderReliable(s, q, payload)
    \/ \E s \in Socks : RecvFrom(s)

SpecRecv == InitSock /\ [][NextRecv]_vars

----------------------------------------------------------------------------
(* The client's audio rings: voudp/src/client.rs start_audio, network_thread *)

\* samples per channel in one frame; 960 in the program
TARGET_FRAME_SIZE == 1

\* const BUFFER_CAPACITY: usize = TARGET_FRAME_SIZE * 10
BUFFER_CAPACITY == TARGET_FRAME_SIZE * 10

\* the capture stream is followed until it has pushed this many floats
MaxPushed == 2 * BUFFER_CAPACITY + 4 * TARGET_FRAME_SIZE

\* VecDeque::pop_front on a deque whose value is not used
pop_front(buffer) == IF buffer = << >> THEN buffer ELSE Tail(buffer)

\* what the capture callback has done so far
CaptureRun(buffer, next, drops) == [buffer |-> buffer, next |-> next, drops |-> drops]

\* one discard of the capture callback: the ring's length before it and the
\* number of floats it took from the front
Discard(buffer, n) == [held |-> Len(buffer), floats |-> IF Len(buffer) < n THEN Len(buffer) ELSE n]

\* a capture callback that discards only once the ring is over its capacity
capture_mono_sample_Late(r) ==
    LET full == Len(r.buffer) > BUFFER_CAPACITY * 2
        kept == IF full THEN pop_front(pop_front(r.buffer)) ELSE r.buffer
    IN [buffer |-> kept \o << r.next, r.next + 1 >>, next |-> r.next + 2,
        drops |-> IF full THEN Append(r.drops, Discard(r.buffer, 2)) ELSE r.drops]

\* capture callback, channels == 1: one iteration of `for sample in data`.
\* The float pushed twice is the next place of the stream, twice over.
capture_mono_sample(r) ==
    LET full == Len(r.buffer) >= BUFFER_CAPACITY * 2
        kept == IF full THEN pop_front(pop_front(r.buffer)) ELSE r.buffer
    IN CaptureRun(kept \o << r.next, r.next + 1 >>, r.next + 2,
                  IF full THEN Append(r.drops, Discard(r.buffer, 2)) ELSE r.drops)

\* capture callback, channels == 2: one iteration of `for sample in data`
capture_stereo_sample(r) ==
    LET full == Len(r.buffer) >= BUFFER_CAPACITY
        kept == IF full THEN pop_front(r.buffer) ELSE r.buffer
    IN CaptureRun(Append(kept, r.next), r.next + 1,
                  IF full THEN Append(r.drops, Discard(r.buffer, 1)) ELSE r.drops)

\* the capture callback on `data` of k floats, for a stream of ch channels;
\* the callback holds the ring's mutex from its first line to its last
RECURSIVE capture_callback(_, _, _)
capture_callback(ch, r, k) ==
    IF k = 0 \/ ch \notin {1, 2} THEN r
    ELSE capture_callback(ch, IF ch = 1 THEN capture_mono_sample(r)
                              ELSE capture_stereo_sample(r), k - 1)

\* network_thread: while buffer.len() >= TARGET_FRAME_SIZE * 2 { fill
\* frame_buf from the front }; the frames in the order they were filled
RECURSIVE drain_input(_, _)
drain_input(buffer, frames) ==
    IF Len(buffer) >= TARGET_FRAME_SIZE * 2
    THEN drain_input(SubSeq(buffer, TARGET_FRAME_SIZE * 2 + 1, Len(buffer)),
                     Append(frames, SubSeq(buffer, 1, TARGET_FRAME_SIZE * 2)))
    ELSE [buffer |-> buffer, frames |-> frames]

\* network_thread, the audio arm: for s in &pcm[..(decoded * 2)]
RECURSIVE push_output(_, _)
push_output(buffer, k) ==
    IF k = 0 THEN buffer
    ELSE push_output(Append(IF Len(buffer) >= BUFFER_CAPACITY * 2 THEN pop_front(buffer)
                            ELSE buffer, 0), k - 1)

\* playback callback: for sample in data { buffer.pop_front().unwrap_or(0.0) }
RECURSIVE playback_callback(_, _)
playback_callback(buffer, k) ==
    IF k = 0 THEN buffer ELSE playback_callback(pop_front(buffer), k - 1)

\* the audio packet of one encoded frame
AudioPacket == << TagAudio, 55 >>

\* socket.send(&packet), once per frame: what n calls of send_to leave in
\* the socket and on the network. Audio is not a reliable type.
SocketRun(counter, log, inflight, sent) ==
    [counter |-> counter, log |-> log, inflight |-> inflight, sent |-> sent]

RECURSIVE send_frames(_, _)
send_frames(k, n) ==
    IF n = 0 THEN k
    ELSE LET d == Datagram(ThreadSock, Peer(ThreadSock),
                           AeadFrame(SharedKey,
                                     NonceBytes(nonce_prefix[ThreadSock], k.counter),
                                     AudioPacket))
         IN send_frames(SocketRun(FetchAddNonce(k.counter), Append(k.log, d.frame.nonce),
                                  k.inflight (+) SetToBag({d}), k.sent \cup {d}), n - 1)

\* start_audio: the capture stream is built for the device's channel count
StartAudio(ch) ==
    /\ capture_channels = 0
    /\ capture_channels' = ch
    /\ UNCHANGED << input_ring, output_ring, pushed, aud_last, connected, state, net_pc,
                    recv_result, codec, tpc, tcounter, tsends, tbuf, tret, sockVars, srvVars >>

\* the capture stream calls back with k samples; their values (tanh of the
\* input, or 0.0 when muted) and the `talking` flag computed from them are
\* not followed, their places in the ring are
CaptureCallback(k) ==
    /\ capture_channels # 0
    /\ pushed + 2 * k <= MaxPushed
    /\ LET r == capture_callback(capture_channels,
                                 CaptureRun(input_ring, pushed + 1, << >>), k)
       IN /\ input_ring' = r.buffer
          /\ pushed' = r.next - 1
          /\ aud_last' = [op |-> "capture", drops |-> r.drops, frames |-> << >>]
    /\ UNCHANGED << capture_channels, output_ring, connected, state, net_pc, recv_result,
                    codec, tpc, tcounter, tsends, tbuf, tret, sockVars, srvVars >>

\* the playback stream calls back for k floats; a deafened client pops none
PlaybackCallback(k, deafened) ==
    /\ capture_channels # 0
    /\ output_ring # << >>
    /\ output_ring' = IF deafened THEN output_ring ELSE playback_callback(output_ring, k)
    /\ aud_last' = [op |-> "playback", drops |-> << >>, frames |-> << >>]
    /\ UNCHANGED << capture_channels, input_ring, pushed, connected, state, net_pc,
                    recv_result, codec, tpc, tcounter, tsends, tbuf, tret, sockVars, srvVars >>

\* network_thread, the send half of a pass in which no list request is due:
\* the input ring is drained frame by frame under its mutex and every frame
\* is encoded and sent unless the client is muted
NetworkThreadDrain(muted) ==
    /\ net_pc = "loop" /\ connected
    /\ LET r == drain_input(input_ring, << >>)
           k == send_frames(SocketRun(nonce_counter[ThreadSock], nonce_log[ThreadSock],
                                      net, wire),
                            IF muted THEN 0 ELSE Len(r.frames))
       IN /\ input_ring' = r.buffer
          /\ aud_last' = [op |-> "drain", drops |-> << >>, frames |-> r.frames]
          /\ nonce_counter' = [nonce_counter EXCEPT ![ThreadSock] = k.counter]
          /\ nonce_log' = [nonce_log EXCEPT ![ThreadSock] = k.log]
          /\ net' = k.inflight
          /\ wire' = k.sent
    /\ net_pc' = "recv"
    /\ UNCHANGED << capture_channels, output_ring, pushed, connected, state, recv_result,
                    codec, tpc, tcounter, tsends, tbuf, tret, nonce_prefix, seq_counter,
                    pending, clock_ms, delivered, rel_sent, lost, acks, acks_lost,
                    abandoned, app_sends, srvVars >>

\* network_thread, the receive half: recv_from returned an audio packet
\* that decodes to `decoded` samples per channel (0: another packet, or
\* nothing), and the pass ends
NetworkThreadAudio(decoded) ==
    /\ net_pc = "recv"
    /\ output_ring' = push_output(output_ring, decoded * 2)
    /\ aud_last' = [op |-> "audio", drops |-> << >>, frames |-> << >>]
    /\ recv_result' = "Ok"
    /\ net_pc' = "loop"
    /\ UNCHANGED << capture_channels, input_ring, pushed, connected, state, codec, tpc,
                    tcounter, tsends, tbuf, tret, sockVars, srvVars >>

NextRings ==
    \/ \E ch \in {1, 2} : StartAudio(ch)
    \/ \E k \in {2, 4} : CaptureCallback(IF capture_channels = 1 THEN k \div 2 ELSE k)
    \/ \E k \in {2, 4}, deafened \in BOOLEAN : PlaybackCallback(k, deafened)
    \/ \E muted \in BOOLEAN : NetworkThreadDrain(muted)
    \/ \E decoded \in 0..TARGET_FRAME_SIZE : NetworkThreadAudio(decoded)

SpecRings == InitSock /\ [][NextRings]_vars

----------------------------------------------------------------------------
(* The client network thread: voudp/src/client.rs *)

\* a passphrase other than the client's
OtherKey == "k2"

\* what recv_from returns for datagram d: "Ok", or the kind of its error
recv_from_kind(d) ==
    IF TooSmall(d.frame) \/ ~DecryptOk(SharedKey, d.frame) THEN "InvalidData"
    ELSE IF IsAckPlain(d.frame.bytes) THEN "Ok"
    ELSE IF IsReliablePlain(d.frame.bytes)
         THEN IF Len(d.frame.bytes) - 5 > RecvBufLen THEN "InvalidData" ELSE "Ok"
    ELSE IF Len(d.frame.bytes) > RecvBufLen THEN "InvalidData" ELSE "Ok"

\* network_thread: match socket.recv_from(&mut recv_buf)
network_thread_match(kind) ==
    CASE kind = "Ok" -> [connected |-> connected, state |-> state, pc |-> "loop"]
      [] kind = "WouldBlock" -> [connected |-> connected, state |-> state, pc |-> "loop"]
      [] kind = "Unsupported" ->
            [connected |-> FALSE, state |-> "IncorrectPhraseError", pc |-> "exited"]
      [] OTHER -> [connected |-> connected, state |-> state, pc |-> "exited"]

\* the bytes recv_from leaves in recv_buf for datagram d when it returns Ok
recv_from_bytes(d) ==
    IF IsAckPlain(d.frame.bytes) THEN << >>
    ELSE IF IsReliablePlain(d.frame.bytes)
         THEN SubSeq(d.frame.bytes, 6, Len(d.frame.bytes))
    ELSE d.frame.bytes

\* the guard of the audio arm: size > 1 && recv_buf[0] == 0x02
IsAudioPacket(bytes) == Len(bytes) > 1 /\ bytes[1] = TagAudio

\* the arms of the match act on the client; in the audio arm the decoder
\* yields some number of samples per channel, 0 standing for its errors
NetworkThreadMatch(kind, bytes) ==
    LET m == network_thread_match(kind) IN
        /\ recv_result' = kind
        /\ connected' = m.connected
        /\ state' = m.state
        /\ net_pc' = m.pc
        /\ \E decoded \in IF kind = "Ok" /\ IsAudioPacket(bytes)
                           THEN 0..TARGET_FRAME_SIZE ELSE {0} :
              output_ring' = push_output(output_ring, decoded * 2)
        /\ UNCHANGED << codec, capture_channels, input_ring, pushed, aud_last, tpc,
                        tcounter, tsends, tbuf, tret, srvVars >>

\* the receive half of a pass: the UDP socket has datagram d for the client
NetworkThreadTake ==
    \E d \in BagToSet(net) :
        /\ d.dst = ThreadSock
        /\ \/ RecvRejectSock(ThreadSock, d)
           \/ RecvAckSock(ThreadSock, d)
           \/ RecvReliableSock(ThreadSock, d)
           \/ RecvPlainSock(ThreadSock, d)
        /\ NetworkThreadMatch(recv_from_kind(d), recv_from_bytes(d))

\* the receive half of a pass: the non-blocking UDP socket has nothing
NetworkThreadEmpty ==
    /\ NetworkThreadMatch("WouldBlock", << >>)
    /\ UNCHANGED sockVars

\* one pass of the loop in which no list request and no audio frame is due
\* and the UDP socket has a datagram for the client
NetworkThreadRecv ==
    /\ net_pc = "loop" /\ connected
    /\ NetworkThreadTake

\* one pass of the loop in which the non-blocking UDP socket has nothing
NetworkThreadIdle ==
    /\ net_pc = "loop" /\ connected
    /\ NetworkThreadEmpty

\* a head of the loop that does not look at `connected`
NetworkThreadStop_Blind ==
    /\ net_pc = "loop" /\ ~connected
    /\ net_pc' = "loop"
    /\ UNCHANGED << connected, state, recv_result, codec, audVars, tpc, tcounter, tsends, tbuf, tret,
                    sockVars, srvVars >>

\* the head of the loop: if !connected.load() { break }
NetworkThreadStop ==
    /\ net_pc = "loop" /\ ~connected
    /\ net_pc' = "exited"
    /\ UNCHANGED << connected, state, recv_result, codec, audVars, tpc, tcounter, tsends, tbuf, tret,
                    sockVars, srvVars >>

\* ClientState::disconnect: socket.send(&[0x03]), then connected.store(false).
\* send wraps the packet when its type is_reliable(); that classification is
\* not part of the sources, so both ways are taken.
Disconnect ==
    /\ connected
    /\ \E rel \in BOOLEAN :
        LET seq == seq_counter[ThreadSock]
            buf == IF rel THEN ReliablePacket(seq, << TagEof >>) ELSE << TagEof >>
            d == SendToDatagram(ThreadSock, buf, Peer(ThreadSock))
        IN
            /\ nonce_counter' = [nonce_counter EXCEPT ![ThreadSock] = FetchAddNonce(@)]
            /\ nonce_log' = [nonce_log EXCEPT ![ThreadSock] = Append(@, d.frame.nonce)]
            /\ net' = net (+) SetToBag({d})
            /\ wire' = wire \cup {d}
            /\ seq_counter' = IF rel THEN [seq_counter EXCEPT ![ThreadSock] = @ + 1]
                              ELSE seq_counter
            /\ pending' = IF rel
                          THEN [pending EXCEPT ![ThreadSock] =
                                   MapPut(@, seq, [data |-> buf, addr |-> Peer(ThreadSock),
                                                   last_sent |-> clock_ms, retries |-> 0])]
                          ELSE pending
            /\ rel_sent' = IF rel THEN [rel_sent EXCEPT ![ThreadSock] = MapPut(@, seq, << TagEof >>)]
                           ELSE rel_sent
            /\ lost' = IF rel THEN [lost EXCEPT ![ThreadSock] = MapPut(@, seq, 0)] ELSE lost
    /\ connected' = FALSE
    /\ UNCHANGED << nonce_prefix, clock_ms, delivered, acks, acks_lost, abandoned,
                    app_sends, state, net_pc, recv_result, codec, audVars, tpc, tcounter, tsends,
                    tbuf, tret, srvVars >>

\* a datagram from outside the protocol reaches the client: sealed under
\* another passphrase, or shorter than a nonce
StrayFrames == { AeadFrame(OtherKey, NonceBytes(0, 0), << 5 >>), RawFrame(<< 5 >>) }

StrayDatagram(f) ==
    LET d == Datagram(Peer(ThreadSock), ThreadSock, f) IN
        /\ d \notin wire
        /\ net' = net (+) SetToBag({d})
        /\ wire' = wire \cup {d}
        /\ UNCHANGED << nonce_counter, nonce_prefix, seq_counter, pending, clock_ms,
                        nonce_log, delivered, rel_sent, lost, acks, acks_lost,
                        abandoned, app_sends, threadVars, srvVars >>

NextClient ==
    \/ \E buf \in PlainPayloads : SendTo(Sender, buf, ThreadSock)
    \/ \E payload \in ReliablePayloads : SendReliable(Sender, payload, ThreadSock)
    \/ \E f \in StrayFrames : StrayDatagram(f)
    \/ NetworkThreadRecv
    \/ NetworkThreadIdle
    \/ NetworkThreadStop
    \/ Disconnect
    \/ RecvFrom(Sender)
    \/ Drop

SpecClient == InitSock /\ [][NextClient]_vars

\* the receive half of a pass that began with NetworkThreadDrain
NetworkThreadReceive ==
    /\ net_pc = "recv"
    /\ (NetworkThreadTake \/ NetworkThreadEmpty)

\* the capture stream delivers one frame when the ring holds less than one,
\* until the client's socket has sent MaxThreadSends datagrams
CaptureFrame ==
    /\ Len(input_ring) < 2 * TARGET_FRAME_SIZE
    /\ Len(nonce_log[ThreadSock]) < MaxThreadSends
    /\ CaptureCallback(capture_channels * TARGET_FRAME_SIZE)

\* the client with its capture stream, its network thread pass by pass and
\* the application calling disconnect at any moment
NextDisconnect ==
    \/ \E buf \in PlainPayloads : SendTo(Sender, buf, ThreadSock)
    \/ \E payload \in ReliablePayloads : SendReliable(Sender, payload, ThreadSock)
    \/ \E ch \in {1, 2} : StartAudio(ch)
    \/ CaptureFrame
    \/ \E muted \in BOOLEAN : NetworkThreadDrain(muted)
    \/ NetworkThreadReceive
    \/ NetworkThreadStop
    \/ Disconnect

\* the network thread is scheduled: it sleeps 100 microseconds per pass and
\* never blocks, the socket being non-blocking and the mutexes held briefly
ThreadFairness == WF_vars(NetworkThreadReceive) /\ WF_vars(NetworkThreadStop)

SpecDisconnect == InitSock /\ [][NextDisconnect]_vars /\ ThreadFairness

----------------------------------------------------------------------------
(* The chat forward, byte by byte: server.rs handle_mask and handle_chat,    *)
(* util.rs ChatPacket::deserialize                                           *)

\* the bytes strings are made of here: the delimiter byte, a letter, and a
\* byte that is not UTF-8 on its own
CodecBytes == {1, 97, 255}

\* all byte strings of length 0..n
ByteStrings(n) == UNION { [1..k -> CodecBytes] : k \in 0..n }

\* String::from_utf8 on strings of single bytes: every byte is ASCII
from_utf8_ok(b) == \A i \in DOMAIN b : b[i] < 128

\* handle_mask stores the mask: it is UTF-8 and not empty
MaskAccepted(mask) == from_utf8_ok(mask) /\ mask # << >>

\* handle_chat forwards the message: it is UTF-8
MessageAccepted(data) == from_utf8_ok(data)

\* handle_chat: msg_packet
msg_packet(mask, is_self, data) ==
    << TagChat >> \o mask \o << 1 >> \o << IF is_self THEN 1 ELSE 0 >> \o data

\* Iterator::position(|&b| b == 0x01) over bytes[1..], plus 1; 0 when absent
delimiter_pos(bytes) ==
    LET hits == {i \in 2..Len(bytes) : bytes[i] = 1} IN
        IF hits = {} THEN 0
        ELSE (CHOOSE i \in hits : \A j \in hits : i <= j) - 1

DecodeError(e) == [ok |-> FALSE, error |-> e]

\* ChatPacket::deserialize
ChatPacket_deserialize(bytes) ==
    IF bytes = << >> THEN DecodeError("TooShort")
    ELSE IF bytes[1] # TagChat THEN DecodeError("InvalidType")
    ELSE IF Len(bytes) < 3 THEN DecodeError("TooShort")
    ELSE
    LET pos == delimiter_pos(bytes) IN
        IF pos = 0 THEN DecodeError("MissingDelimiter")
        ELSE IF pos = 1 THEN DecodeError("username is empty")
        ELSE IF ~from_utf8_ok(SubSeq(bytes, 2, pos)) THEN DecodeError("Utf8")
        ELSE IF Len(bytes) <= pos + 1 THEN DecodeError("missing is_self flag")
        ELSE IF ~from_utf8_ok(SubSeq(bytes, pos + 3, Len(bytes))) THEN DecodeError("Utf8")
        ELSE [ok |-> TRUE,
              username |-> SubSeq(bytes, 2, pos),
              message |-> SubSeq(bytes, pos + 3, Len(bytes)),
              is_self |-> bytes[pos + 2] # 0]

\* the inputs: a MASK payload, a CHAT payload, and whether the recipient is
\* the sender
CodecInputs ==
    [stage : {"input"}, mask : ByteStrings(MaxMaskLen), data : ByteStrings(MaxMsgLen),
     is_self : BOOLEAN]

\* handle_mask or handle_chat returns early: nothing is forwarded
ChatRefused ==
    /\ codec.stage = "input"
    /\ ~(MaskAccepted(codec.mask) /\ MessageAccepted(codec.data))
    /\ codec' = [stage |-> "refused", mask |-> codec.mask, data |-> codec.data,
                 is_self |-> codec.is_self]
    /\ UNCHANGED << sockVars, tpc, tcounter, tsends, tbuf, tret, connected, state,
                    net_pc, recv_result, audVars, srvVars >>

\* handle_mask stores the mask, handle_chat builds the forward
ChatForwarded ==
    /\ codec.stage = "input"
    /\ MaskAccepted(codec.mask) /\ MessageAccepted(codec.data)
    /\ codec' = [stage |-> "sent", mask |-> codec.mask, data |-> codec.data,
                 is_self |-> codec.is_self,
                 packet |-> msg_packet(codec.mask, codec.is_self, codec.data)]
    /\ UNCHANGED << sockVars, tpc, tcounter, tsends, tbuf, tret, connected, state,
                    net_pc, recv_result, audVars, srvVars >>

\* the recipient decodes the forward
ChatDecoded ==
    /\ codec.stage = "sent"
    /\ codec' = [stage |-> "decoded", mask |-> codec.mask, data |-> codec.data,
                 is_self |-> codec.is_self, packet |-> codec.packet,
                 decoded |-> ChatPacket_deserialize(codec.packet)]
    /\ UNCHANGED << sockVars, tpc, tcounter, tsends, tbuf, tret, connected, state,
                    net_pc, recv_result, audVars, srvVars >>

NextCodec == ChatRefused \/ ChatForwarded \/ ChatDecoded

InitCodec == SocketsCreated /\ ServerNew /\ config.max_users = 1 /\ codec \in CodecInputs

SpecCodec == InitCodec /\ [][NextCodec]_vars

InitNonce == Init /\ config.max_users = 1

SpecNonce == InitNonce /\ [][NextNonce]_vars

----------------------------------------------------------------------------
(* Claims about the server state *)

\* the member list of a channel holds a remote of this endpoint
HasMember(ch, h, addr) == \E i \in DOMAIN ch.remotes : h[ch.remotes[i]].addr = addr

\* the frames the queue holds for an endpoint that decode, in arrival order
RECURSIVE DecodedFor(_, _)
DecodedFor(addr, queue) ==
    IF queue = << >> THEN << >>
    ELSE IF Head(queue).addr = addr /\ Head(queue).data \in {OpusVoiced, OpusZero}
         THEN << IF Head(queue).data = OpusVoiced THEN VoicedFrame ELSE ZeroFrame >>
                  \o DecodedFor(addr, Tail(queue))
         ELSE DecodedFor(addr, Tail(queue))

\* the first n elements of a sequence, all of it when it is shorter
Prefix(seq, n) == SubSeq(seq, 1, IF Len(seq) < n THEN Len(seq) ELSE n)

\* C5: every remote in a channel's member list is the remote the endpoint map
\* holds for its endpoint: no channel refers to a remote that EOF or the
\* timeout has removed from the map.
C5_MembersInEndpointMap ==
    \A c \in DOMAIN channels : \A i \in DOMAIN channels[c].remotes :
        LET o == channels[c].remotes[i] IN
        /\ heap[o].addr \in DOMAIN remotes
        /\ remotes[heap[o].addr] = o

\* C6: each remote's channel id is the key of an existing channel (a remote
\* enters the map only with its first JOIN applied, so 0 has no exemption in
\* a reachable state), also after the console's create, del and rename.
C6_ChannelIdExists ==
    \A a \in DOMAIN remotes : heap[remotes[a]].channel_id \in DOMAIN channels

\* every member of every channel has its endpoint in both maps of the channel
C7_Entries ==
    \A c \in DOMAIN channels : \A i \in DOMAIN channels[c].remotes :
        LET a == heap[channels[c].remotes[i]].addr IN
        /\ a \in DOMAIN channels[c].buffers
        /\ a \in DOMAIN channels[c].filter_states

\* a step that takes an endpoint's member entries out of a channel leaves the
\* channel without that endpoint's input frame and filter state
C7_Removal ==
    \A c \in DOMAIN channels \cap DOMAIN channels' : \A a \in Addrs :
        (HasMember(channels[c], heap, a) /\ ~HasMember(channels'[c], heap', a))
            => /\ a \notin DOMAIN channels'[c].buffers
               /\ a \notin DOMAIN channels'[c].filter_states

\* C7: in every reachable state each member of each channel has an entry in
\* the channel's input-frame map and in its filter-state map, and removing a
\* remote from a channel removes the member entry and both map entries.
C7_MemberEntries == []C7_Entries /\ [][C7_Removal]_vars

\* the members of a channel that are remotes of an endpoint
MembersOf(ch, h, addr) == {i \in DOMAIN ch.remotes : h[ch.remotes[i]].addr = addr}

\* a JOIN moved a remote that existed already (its only reply is the move
\* notice) into a channel whose member list holds it once, so it came from
\* another channel: that channel has lost the member and both map entries,
\* and keeps another member with its entries
C7_Witness ==
    /\ last.op = "join"
    /\ Len(out) = 1
    /\ last.addr \in DOMAIN remotes
    /\ LET a == last.addr
           now_in == heap[remotes[a]].channel_id
       IN /\ Cardinality(MembersOf(channels[now_in], heap, a)) = 1
          /\ \E old \in (JoinChannels \cap DOMAIN channels) \ {now_in} :
                /\ ~HasMember(channels[old], heap, a)
                /\ a \notin DOMAIN channels[old].buffers
                /\ a \notin DOMAIN channels[old].filter_states
                /\ channels[old].remotes # << >>
                /\ \A i \in DOMAIN channels[old].remotes :
                      LET b == heap[channels[old].remotes[i]].addr IN
                      /\ b \in DOMAIN channels[old].buffers
                      /\ b \in DOMAIN channels[old].filter_states

\* no jitter buffer holds more than JITTER_BUFFER_LEN frames
C8_Len ==
    \A o \in DOMAIN heap : Len(heap[o].jitter_buffer) <= JITTER_BUFFER_LEN

\* a tick leaves in each jitter buffer what it held, followed by the decoded
\* frames that still fitted, less the frame the tick pulled from the front
C8_Tick ==
    last'.op = "tick" =>
        \A a \in DOMAIN remotes \cap DOMAIN remotes' :
            LET kept == Prefix(heap[remotes[a]].jitter_buffer
                                   \o DecodedFor(a, audio_rb), JITTER_BUFFER_LEN)
            IN heap'[remotes'[a]].jitter_buffer =
                   IF kept = << >> THEN << >> ELSE Tail(kept)

\* C8: every jitter buffer holds at most 50 decoded frames, and a frame that
\* is decoded while the buffer holds 50 is discarded, the buffer keeping its
\* contents.
C8_JitterBounded == []C8_Len /\ [][C8_Tick]_vars

\* the queue holds more decodable frames for a remote than its jitter buffer
\* has room for: the tick that drains it meets a full buffer
C8_Witness ==
    \E a \in DOMAIN remotes :
        /\ Len(heap[remotes[a]].jitter_buffer) < JITTER_BUFFER_LEN
        /\ Len(heap[remotes[a]].jitter_buffer) + Len(DecodedFor(a, audio_rb))
              > JITTER_BUFFER_LEN

\* C9: the endpoint map never holds more than max_users remotes.
C9_RemotesWithinMaxUsers == Cardinality(DOMAIN remotes) <= config.max_users

\* the queue holds at most max_users entries
C10_Len == Len(audio_rb) <= config.max_users

\* an AUDIO datagram of a known remote that meets a full queue leaves it as it is
C10_Drop ==
    (/\ last'.op = "audio"
     /\ last'.addr \in DOMAIN remotes
     /\ Len(audio_rb) >= config.max_users)
        => audio_rb' = audio_rb

\* C10: the audio intake queue never holds more than max_users entries, and an
\* AUDIO datagram from a known remote that arrives while the queue is full is
\* dropped, the queue keeping its contents.
C10_QueueBounded == []C10_Len /\ [][C10_Drop]_vars

\* the queue is full and the AUDIO datagram of a known remote that was served
\* last is not the entry at its tail
C10_Witness ==
    /\ last.op = "audio"
    /\ last.addr \in DOMAIN remotes
    /\ Len(audio_rb) = config.max_users
    /\ audio_rb[Len(audio_rb)].data # Tail(last.data)

----------------------------------------------------------------------------
(* Claims about the mixer *)

\* the frame the next tick pulls for a remote: the front of its jitter
\* buffer once the queued frames are decoded, zeros when there is none
TickInput(a) ==
    LET jb == Prefix(heap[remotes[a]].jitter_buffer \o DecodedFor(a, audio_rb),
                     JITTER_BUFFER_LEN)
    IN IF jb = << >> THEN ZeroFrame ELSE Head(jb)

\* the remotes of a channel whose input frame of the next tick is not silent
Talkers(c) ==
    {a \in DOMAIN remotes :
        heap[remotes[a]].channel_id = c /\ TickInput(a) # ZeroFrame}

\* the AUDIO packets among the packets sent, for one endpoint
AudioTo(sent, a) == {i \in DOMAIN sent : sent[i].tag = TagAudio /\ sent[i].to = a}

\* C11: in every tick the mix sent to a listener is built from the frames of
\* other endpoints only, and a remote that is the only non-silent member of
\* its channel is sent no AUDIO packet in that tick while every other member
\* of the channel that is not deafened is sent one.
C11_NoEcho ==
    [][last'.op = "tick" =>
        /\ \A i \in DOMAIN out' :
              out'[i].tag = TagAudio => out'[i].to \notin out'[i].talkers
        /\ \A r \in DOMAIN remotes :
              LET c == heap[remotes[r]].channel_id IN
              (c \in DOMAIN channels /\ Talkers(c) = {r}) =>
                  /\ AudioTo(out', r) = {}
                  /\ \A i \in DOMAIN channels[c].remotes :
                        LET m == heap[channels[c].remotes[i]] IN
                        (m.addr # r /\ ~m.deaf) => AudioTo(out', m.addr) # {}
    ]_vars

\* C12: a tick sends no AUDIO packet to a remote whose deaf flag is set.
C12_DeafGetsNoAudio ==
    [][last'.op = "tick" =>
        \A a \in DOMAIN remotes :
            heap[remotes[a]].deaf => AudioTo(out', a) = {}
    ]_vars

\* C13: a tick in which the input frame of every member of a channel is all
\* zeros sends no AUDIO packet to any member of that channel.
C13_SilenceInSilenceOut ==
    [][last'.op = "tick" =>
        \A c \in DOMAIN channels :
            (\A i \in DOMAIN channels[c].remotes :
                 LET m == heap[channels[c].remotes[i]] IN
                 ~(/\ m.addr \in DOMAIN remotes
                   /\ heap[remotes[m.addr]].channel_id = c
                   /\ TickInput(m.addr) # ZeroFrame))
              => \A i \in DOMAIN channels[c].remotes :
                     AudioTo(out', heap[channels[c].remotes[i]].addr) = {}
    ]_vars

----------------------------------------------------------------------------
(* Claims about chat, masks and unknown endpoints *)

\* the endpoints of the map whose remote is in channel c
EndpointsIn(c) == {a \in DOMAIN remotes : heap[remotes[a]].channel_id = c}

\* the endpoints the packets of a list are addressed to
Recipients(sent) == {sent[i].to : i \in DOMAIN sent}

\* C14: a CHAT from a known remote that has no mask is forwarded to nobody
\* and answered with exactly one UNAUTH_CHAT_NOTICE (tag 0x07) to the sender,
\* whatever state the remote is in after its first JOIN.
C14_UnmaskedChatRefused ==
    [][(/\ last'.op = "chat"
        /\ last'.addr \in DOMAIN remotes
        /\ heap[remotes[last'.addr]].mask = NoMask)
       => /\ Len(out') = 1
          /\ out'[1].to = last'.addr
          /\ out'[1].tag = TagUnauthChat
    ]_vars

\* C15: a CHAT from a masked remote is sent to every endpoint whose remote
\* is in the sender's current channel and to no other endpoint; each copy
\* carries the sender's mask and the message, with is_self = 1 in the
\* sender's copy and 0 in every other copy.
C15_ChatReachesChannelOnly ==
    [][(/\ last'.op = "chat"
        /\ last'.addr \in DOMAIN remotes
        /\ heap[remotes[last'.addr]].mask # NoMask
        /\ FromUtf8Ok(Tail(last'.data)))
       => LET sender == last'.addr
              mask == heap[remotes[sender]].mask
              members == EndpointsIn(heap[remotes[sender]].channel_id)
          IN /\ Recipients(out') = members
             /\ \A i \in DOMAIN out' :
                   /\ out'[i].tag = TagChat
                   /\ out'[i].body =
                        << mask, 1, IF out'[i].to = sender THEN 1 ELSE 0 >>
                           \o Tail(last'.data)
    ]_vars

\* C16: a valid non-empty MASK from a known remote replaces its mask; every
\* endpoint whose remote is in the sender's channel is sent FLOW_RENICK with
\* (old mask, new mask) when the sender had a mask, FLOW_JOIN with the new
\* mask when it had none, and the step sends no other kind of packet.
C16_MaskAnnounced ==
    [][(/\ last'.op = "mask"
        /\ last'.addr \in DOMAIN remotes
        /\ FromUtf8Ok(Tail(last'.data))
        /\ Utf8String(Tail(last'.data)) # "")
       => LET sender == last'.addr
              old == heap[remotes[sender]].mask
              new == Utf8String(Tail(last'.data))
              Announces(pkt) ==
                  IF old # NoMask
                  THEN pkt.tag = TagFlowRenick /\ pkt.body = << old, new >>
                  ELSE pkt.tag = TagFlowJoin /\ pkt.body = new
          IN /\ remotes' = remotes
             /\ heap'[remotes[sender]].mask = new
             /\ \A a \in EndpointsIn(heap[remotes[sender]].channel_id) :
                   \E i \in DOMAIN out' : out'[i].to = a /\ Announces(out'[i])
             /\ \A i \in DOMAIN out' : Announces(out'[i])
    ]_vars

\* a renick has just been announced to two endpoints
C16_Witness ==
    /\ last.op = "mask"
    /\ Cardinality(Recipients(out)) = 2
    /\ \A i \in DOMAIN out :
          /\ out[i].tag = TagFlowRenick
          /\ out[i].body[1] # out[i].body[2]
          /\ out[i].body[2] = heap[remotes[last.addr]].mask

\* C19: a datagram from an endpoint that is neither a remote nor a console,
\* with a tag other than JOIN and REGISTER_CONSOLE, changes no server state
\* and has nothing sent to that endpoint.
C19_StrangerIgnored ==
    [][(/\ last'.op # "tick"
        /\ last'.data # << >>
        /\ last'.addr \notin DOMAIN remotes
        /\ last'.addr \notin DOMAIN consoles
        /\ last'.data[1] \notin {TagJoin, TagRegisterConsole})
       => /\ UNCHANGED << remotes, heap, consoles, channels, audio_rb >>
          /\ last'.addr \notin Recipients(out')
    ]_vars

----------------------------------------------------------------------------
(* Claims about the idle timeout *)

\* the remote of endpoint a has been idle for longer than the timeout
IdleRemote(a) ==
    /\ a \in DOMAIN remotes
    /\ clock_s - heap[remotes[a]].last_active > config.timeout_secs

\* a tick removes every idle remote from the endpoint map and from the member
\* list of its channel, and sends FLOW_LEAVE with its mask to every endpoint
\* that stays in that channel
C17_Cleanup ==
    last'.op = "tick" =>
        \A a \in DOMAIN remotes :
            IdleRemote(a) =>
                LET r == heap[remotes[a]] IN
                /\ a \notin DOMAIN remotes'
                /\ r.channel_id \in DOMAIN channels' =>
                      ~HasMember(channels'[r.channel_id], heap', a)
                /\ (r.mask # NoMask /\ r.channel_id \in DOMAIN channels) =>
                      \A b \in DOMAIN remotes' :
                          heap'[remotes'[b]].channel_id = r.channel_id =>
                              \E i \in DOMAIN out' :
                                  /\ out'[i].to = b
                                  /\ out'[i].tag = TagFlowLeave
                                  /\ out'[i].body = r.mask

\* a remote whose last activity stays at second t is removed once the clock
\* can pass t + timeout_secs
C17_Eventually ==
    \A a \in Addrs : \A t \in 0..MaxClockS :
        (/\ a \in DOMAIN remotes
         /\ heap[remotes[a]].last_active = t
         /\ t + config.timeout_secs < MaxClockS)
        ~> (\/ a \notin DOMAIN remotes
            \/ heap[remotes[a]].last_active # t)

\* C17: a remote that has been idle for more than timeout_secs when cleanup
\* runs is removed from the endpoint map and from its channel in that
\* cleanup, with FLOW_LEAVE carrying its mask sent to the members of that
\* channel; a remote that stops sending is eventually removed.
C17_IdleRemoteReaped == [][C17_Cleanup]_vars /\ C17_Eventually

\* a tick has just removed a masked idle remote and told the one that stays
C17_Witness ==
    /\ last.op = "tick"
    /\ DOMAIN remotes # {}
    /\ \E i \in DOMAIN out :
          /\ out[i].tag = TagFlowLeave
          /\ out[i].to \in DOMAIN remotes
          /\ \A a \in DOMAIN remotes : heap[remotes[a]].mask # out[i].body

\* C18: a tick drops every console whose last activity is more than the idle
\* timeout old from the console set, the same way it drops idle remotes.
C18_IdleConsoleDropped ==
    [][last'.op = "tick" =>
        \A c \in DOMAIN consoles :
            clock_s - consoles[c].last_active > config.timeout_secs
                => c \notin DOMAIN consoles'
    ]_vars

----------------------------------------------------------------------------
(* Claims about malformed input *)

\* the tags handle_packet dispatches on
ClientTags ==
    {TagJoin, TagAudio, TagEof, TagMask, TagList, TagChat, TagCtrl,
     TagSyncCommands, TagCmd, TagRegisterConsole}

\* a decrypted datagram that is malformed in one of the ways the claim lists
MalformedPacket(data) ==
    /\ data # << >>
    /\ \/ data[1] \notin ClientTags
       \/ data[1] = TagJoin /\ Len(data) < 5
       \/ data[1] \in {TagMask, TagChat, TagCmd} /\ ~FromUtf8Ok(Tail(data))
       \/ data[1] = TagCtrl /\ parse_control_packet(Tail(data)) = 0

\* the step handles a frame that failed to decrypt or a malformed datagram
MalformedStep(l) ==
    \/ l.op = "frame"
    \/ l.op \notin {"tick", "frame"} /\ MalformedPacket(l.data)

----------------------------------------------------------------------------
(* Claims about channel membership *)

\* the channels whose member list holds an entry for endpoint a
ChannelsOf(a) == {c \in DOMAIN channels : HasMember(channels[c], heap, a)}

\* C27: every remote of the endpoint map is a member of exactly one channel,
\* the channel its channel id names, after any sequence of JOINs (a JOIN to
\* channel id 0 followed by a JOIN to another channel included).
C27_ExactlyOneChannel ==
    \A a \in DOMAIN remotes : ChannelsOf(a) = {heap[remotes[a]].channel_id}

\* C28: no channel's member list holds the same endpoint more than once,
\* also after a remote sends JOIN for the channel it is already in.
C28_NoDuplicateMember ==
    \A c \in DOMAIN channels :
        \A i, j \in DOMAIN channels[c].remotes :
            heap[channels[c].remotes[i]].addr = heap[channels[c].remotes[j]].addr
                => i = j

----------------------------------------------------------------------------
(* Claims about the default channel *)

\* C26: the default channel (id 1) exists in every reachable server state:
\* no console command (del by id, del by name, rename, create) and no client
\* packet removes it.
C26_DefaultChannelExists == 1 \in DOMAIN channels

\* the console has just asked to delete the default channel by a name it
\* was renamed to, and was refused
C26_Witness ==
    /\ last.op = "console"
    /\ last.data = << TagConsoleCmd, "del", "jam" >>
    /\ Len(out) = 1
    /\ out[1].body = "cannot delete the default channel defined by the voudp protocol"
    /\ channels[1].name = "jam"

----------------------------------------------------------------------------
(* Claims about the activity time *)

\* C29: every packet the server handles for a known remote (JOIN, MASK,
\* CHAT, CTRL, CMD, SYNC_COMMANDS, AUDIO, LIST) sets the remote's
\* last-activity time to the time of the packet, so that cleanup does not
\* reap a remote that keeps sending.
C29_EveryPacketRefreshes ==
    [][(/\ last'.op \in {"join", "mask", "chat", "ctrl", "cmd", "sync", "audio", "list"}
        /\ last'.addr \in DOMAIN remotes
        /\ last'.addr \in DOMAIN remotes')
       => heap'[remotes'[last'.addr]].last_active = clock_s
    ]_vars

----------------------------------------------------------------------------
(* Claims about commands *)

\* the replies with which the dispatcher itself refuses a command
DispatcherErrors ==
    { "Unknown command. Type /help for available commands.",
      "You need to set a nickname first with /nick",
      "You don't have permission to use this command." }

\* the dispatcher must refuse the text: it names no command, or a command
\* that needs a mask the sender lacks, or one that only an admin may run
MustRefuse(input, mask) ==
    \/ ~parse_command(input)
    \/ get_command(input[1]).requires_auth /\ mask = NoMask
    \/ get_command(input[1]).admin_only /\ ~is_admin

\* C25: a CMD from a known remote that names an unknown command, a command
\* requiring auth while the remote has no mask, or an admin-only command
\* while the remote is no admin, is answered by exactly one CMD_ERROR
\* (tag 0x0f) from the dispatcher to the sender and changes no server state:
\* no handler runs.
C25_DispatcherGates ==
    [][(/\ last'.op = "cmd"
        /\ last'.addr \in DOMAIN remotes
        /\ FromUtf8Ok(Tail(last'.data))
        /\ MustRefuse(Tail(last'.data), heap[remotes[last'.addr]].mask))
       => /\ Len(out') = 1
          /\ out'[1].to = last'.addr
          /\ out'[1].tag = TagCommandError
          /\ out'[1].body \in DispatcherErrors
          /\ UNCHANGED << remotes, heap, channels, consoles, audio_rb >>
    ]_vars

\* a remote without a mask has just sent the command that requires one
C25_Witness ==
    /\ last.op = "cmd"
    /\ last.data = << TagCmd, "/test" >>
    /\ last.addr \in DOMAIN remotes
    /\ heap[remotes[last.addr]].mask = NoMask
    /\ Len(out) = 1
    /\ out[1].tag = TagCommandError
    /\ out[1].body = "You need to set a nickname first with /nick"

----------------------------------------------------------------------------
(* Claims about the reliable sub-channel *)

\* the server socket holds packet pkt as a new pending reliable entry
HeldReliable(pkt) ==
    \E seq \in DOMAIN pending'[Sender] \ DOMAIN pending[Sender] :
        /\ pending'[Sender][seq].addr = pkt.to
        /\ pending'[Sender][seq].data = ReliablePacket(seq, Plaintext(pkt))

\* C22: every CHAT forward the server sends is wrapped as 0x80 + sequence
\* and held in the pending map of the server's socket, while a tick's AUDIO
\* datagrams are neither wrapped nor held in pending.
C22_ChatReliableAudioNot ==
    [][/\ last'.op = "chat" =>
             \A i \in DOMAIN out' : out'[i].tag = TagChat => HeldReliable(out'[i])
       /\ last'.op = "tick" =>
             /\ pending' = pending
             /\ \A d \in wire' \ wire : ~IsReliablePlain(d.frame.bytes)
    ]_vars

\* a step changes the retry count of a pending packet only by resending it:
\* at least RetransmitTimeout after its last transmission, one retry at a
\* time, with the resent bytes on the wire and the time of the resend kept
C23_Retransmit ==
    \A s \in Socks : \A q \in DOMAIN pending[s] \cap DOMAIN pending'[s] :
        pending'[s][q].retries # pending[s][q].retries =>
            /\ clock_ms - pending[s][q].last_sent >= RetransmitTimeout
            /\ pending[s][q].retries < max_retries
            /\ pending'[s][q].retries = pending[s][q].retries + 1
            /\ pending'[s][q].last_sent = clock_ms

\* no pending packet has been resent more than max_retries times
C23_Retries ==
    \A s \in Socks : \A q \in DOMAIN pending[s] : pending[s][q].retries <= max_retries

\* a pending packet for whose remaining retries the clock of the model has
\* room leaves the pending map
C23_Eventually ==
    \A q \in 1..MaxSends :
        (/\ q \in DOMAIN pending[Sender]
         /\ pending[Sender][q].last_sent
              + (max_retries - pending[Sender][q].retries) * ClockStep
                < MaxClock + ClockStep)
        ~> (q \notin DOMAIN pending[Sender])

\* C23: tick_reliable resends a pending packet only when at least 200 ms
\* have passed since its last transmission and at most 5 times; when no ACK
\* arrives, repeated runs of the tick routine eventually remove the entry.
C23_RetransmitBounded == []C23_Retries /\ [][C23_Retransmit]_vars /\ C23_Eventually

\* the tick routine has given a packet up after its fifth resend, and no ACK
\* was ever produced for it
C23_Witness ==
    \E q \in abandoned[Sender] :
        /\ q \notin DOMAIN pending[Sender]
        /\ acks[Peer(Sender)] = EmptyBag
        /\ Cardinality({d \in wire : ~d.frame.aead /\ PlainSeq(d.frame.bytes) = q}) >= 1
        /\ clock_ms >= max_retries * RetransmitTimeout

\* the datagram a step took from the network is an ACK for sequence q of
\* socket s that came from the address the packet was sent to
MatchingAckTaken(s, q) ==
    \E d \in BagToSet(net) :
        /\ net' = net (-) SetToBag({d})
        /\ d.dst = s
        /\ IsAckPlain(d.frame.bytes)
        /\ PlainSeq(d.frame.bytes) = q
        /\ d.src = pending[s][q].addr

\* the step gave sequence q of socket s up after its last retry
GivenUp(s, q) ==
    /\ pending[s][q].retries >= max_retries
    /\ q \in abandoned'[s]

\* C30: a pending reliable entry leaves the pending map only through an ACK
\* with the entry's sequence that comes from the address the packet was sent
\* to, or through abandonment after the retry limit; an ACK from any other
\* address leaves the pending map as it is.
C30_AckFromPeerOnly ==
    [][\A s \in Socks : \A q \in DOMAIN pending[s] :
          q \notin DOMAIN pending'[s] => MatchingAckTaken(s, q) \/ GivenUp(s, q)]_vars

\* C21: while the connected flag is true the client network thread leaves
\* its loop only when recv_from reports an error of kind Unsupported, and it
\* then sets the client state to IncorrectPhraseError; no other receive
\* result (WouldBlock, a too-small frame, an unknown or malformed packet)
\* makes it leave.
C21_ExitOnlyOnUnsupported ==
    [][(net_pc = "loop" /\ connected /\ net_pc' = "exited")
          => (recv_result' = "Unsupported" /\ state' = "IncorrectPhraseError")]_vars

\* C24: for every mask the server accepts (non-empty UTF-8) and every UTF-8
\* message, decoding the CHAT forward the server builds (tag, mask, 0x01,
\* is_self byte, message) yields exactly that mask, that is_self flag and
\* that message.
C24_ChatForwardRoundTrip ==
    codec.stage = "decoded" =>
        /\ codec.decoded.ok
        /\ codec.decoded.username = codec.mask
        /\ codec.decoded.is_self = codec.is_self
        /\ codec.decoded.message = codec.data

\* the channel id a JOIN packet carries
JoinId(data) == from_be_bytes(SubSeq(data, 2, 5))

\* C33: a JOIN whose channel id is 0 or is at least 65535 is rejected as
\* invalid: no remote is created, no channel is created and no membership
\* changes.
C33_InvalidJoinRejected ==
    [][(last'.op = "join" /\ (JoinId(last'.data) = 0 \/ JoinId(last'.data) >= U16_MAX))
          => UNCHANGED << remotes, heap, channels >>]_vars

\* endpoint a is out of channel c: no member entry, no input frame, no
\* filter state
OutOfChannel(chans, h, c, a) ==
    c \in DOMAIN chans =>
        /\ ~HasMember(chans[c], h, a)
        /\ a \notin DOMAIN chans[c].buffers
        /\ a \notin DOMAIN chans[c].filter_states

\* endpoint a is in channel c
InChannel(chans, h, c, a) ==
    /\ c \in DOMAIN chans
    /\ HasMember(chans[c], h, a)
    /\ a \in DOMAIN chans[c].buffers
    /\ a \in DOMAIN chans[c].filter_states

\* C32: a JOIN from an endpoint that already has a remote changes only its
\* channel assignment: the remote leaves the old channel's member list and
\* maps and is added to the new channel, and the Remote object (codec state),
\* its mask, mute and deaf flags and jitter buffer stay as they are.
C32_RejoinMovesOnly ==
    [][(last'.op = "join" /\ Len(last'.data) >= 5 /\ last'.addr \in DOMAIN remotes)
          => LET a == last'.addr
                 o == remotes[a]
                 old == heap[o].channel_id
                 new == JoinId(last'.data)
             IN /\ remotes' = remotes
                /\ heap'[o] = [heap[o] EXCEPT !.channel_id = new]
                /\ \A p \in DOMAIN heap \ {o} : p \in DOMAIN heap' /\ heap'[p] = heap[p]
                /\ InChannel(channels', heap', new, a)
                /\ old # new => OutOfChannel(channels', heap', old, a)
                /\ \A c \in DOMAIN channels \ {old, new} :
                      c \in DOMAIN channels' /\ channels'[c] = channels[c]]_vars

\* the client packet types the claim names
ClientOnlyTags == {TagJoin, TagAudio, TagChat, TagCtrl, TagMask}

\* C35: once an endpoint is registered as a console, its datagrams are handled
\* by the console table only: a JOIN, AUDIO, MASK, CHAT or CTRL from it
\* creates or changes no remote and no channel membership, queues no audio
\* and is answered by nothing, for as long as the endpoint is a console.
C35_ConsoleTableOnly ==
    [][(/\ last'.op \in {"join", "audio", "mask", "chat", "ctrl"}
        /\ last'.addr \in DOMAIN consoles
        /\ last'.data[1] \in ClientOnlyTags)
          => (/\ UNCHANGED << remotes, heap, channels, audio_rb, consoles >>
              /\ out' = << >>)]_vars

\* an endpoint that joined channel 1 and then registered as a console has
\* sent a JOIN for channel 2 and is still in channel 1
C35_Witness ==
    /\ last.op = "join"
    /\ last.addr \in DOMAIN consoles
    /\ last.addr \in DOMAIN remotes
    /\ JoinId(last.data) = 2
    /\ heap[remotes[last.addr]].channel_id = 1
    /\ ChannelsOf(last.addr) = {1}

\* the tick gave the channel of remote a the frame at the front of a's jitter
\* buffer, zeros when the buffer was empty
InputUsed(inputs, a) ==
    LET c == heap[remotes[a]].channel_id IN
        /\ c \in DOMAIN inputs
        /\ a \in DOMAIN inputs[c]
        /\ inputs[c][a] = TickInput(a)

\* C31: in every tick the frame at the front of each remote's jitter buffer
\* is that remote's channel input and leaves the buffer, the frames behind it
\* keeping their order (so each accepted frame is the input of exactly one
\* tick, in arrival order); the input is an all-zero frame when the buffer is
\* empty; and after the mixer has run every input frame of every channel is
\* all zeros.
C31_JitterFeedsChannel ==
    [][(last'.op = "tick" /\ last'.data # << >>) =>
          /\ \A a \in DOMAIN remotes : InputUsed(last'.data[1], a)
          /\ C8_Tick
          /\ \A c \in DOMAIN channels' : \A a \in DOMAIN channels'[c].buffers :
                channels'[c].buffers[a] = ZeroFrame]_vars

\* C34: every endpoint that has a frame in a channel's input-frame map is a
\* current member of that channel: its remote is in the channel's member
\* list; also after a console deleted the channel and a JOIN created the id
\* again.
C34_InputsAreMembers ==
    \A c \in DOMAIN channels : \A a \in DOMAIN channels[c].buffers :
        HasMember(channels[c], heap, a)

\* the step takes datagram d from the network
Taken(d) == CopiesIn(d, net') < CopiesIn(d, net)

\* C36: every received datagram whose plaintext starts with 0x80 and is at
\* least 6 bytes long makes the receiver send a sealed ACK (0x81 and the
\* same sequence number) to the datagram's source address, and recv_from
\* returns to the caller exactly the bytes after the 5-byte header.
C36_ReliableAcked ==
    [][\A d \in BagToSet(net) :
          (/\ Taken(d)
           /\ ~TooSmall(d.frame) /\ DecryptOk(SharedKey, d.frame)
           /\ IsReliablePlain(d.frame.bytes))
          => LET s == d.dst
                 seq == PlainSeq(d.frame.bytes)
                 a == Datagram(s, d.src,
                               AeadFrame(SharedKey,
                                         NonceBytes(nonce_prefix[s], nonce_counter[s]),
                                         << ACK_FLAG >> \o SubSeq(d.frame.bytes, 2, 5)))
             IN /\ a \in wire'
                /\ CopiesIn(a, net') = CopiesIn(a, net) + 1
                /\ delivered'[s] =
                      Append(delivered[s],
                             [from |-> d.src, rel |-> TRUE, seq |-> seq,
                              bytes |-> SubSeq(d.frame.bytes, 6, Len(d.frame.bytes))])]_vars

\* a socket has received a reliable packet of the outsider: the payload was
\* handed up and an ACK addressed to the outsider is in flight
C36_Witness ==
    \E s \in Socks : \E i \in DOMAIN delivered[s] :
        /\ delivered[s][i].from = Outsider
        /\ delivered[s][i].rel
        /\ \E a \in BagToSet(net) :
              /\ a.src = s /\ a.dst = Outsider
              /\ IsAckPlain(a.frame.bytes)
              /\ PlainSeq(a.frame.bytes) = delivered[s][i].seq

----------------------------------------------------------------------------
(* Claims about the client's audio rings                                     *)

\* the floats of frame f are consecutive places of the capture stream
Consecutive(f) == \A j \in 1..(Len(f) - 1) : f[j + 1] = f[j] + 1

\* C37: under every interleaving of the capture callback, the playback
\* callback and the network thread, the input ring and the output ring
\* never hold more than FRAME_SAMPLES x 10 x 2 floats, and every frame the
\* network thread drains is FRAME_SAMPLES x 2 consecutive samples in capture
\* order.
C37_RingsBounded ==
    /\ Len(input_ring) <= TARGET_FRAME_SIZE * 10 * 2
    /\ Len(output_ring) <= TARGET_FRAME_SIZE * 10 * 2
    /\ aud_last.op = "drain" =>
          \A i \in DOMAIN aud_last.frames :
              /\ Len(aud_last.frames[i]) = TARGET_FRAME_SIZE * 2
              /\ Consecutive(aud_last.frames[i])

\* the network thread has drained a full input ring whose front had moved
\* on from the start of the stream, while the output ring is full
C37_Witness ==
    /\ aud_last.op = "drain"
    /\ Len(aud_last.frames) = 10
    /\ aud_last.frames[1][1] > 1
    /\ Len(output_ring) = TARGET_FRAME_SIZE * 10 * 2

\* C38: the capture callback discards buffered samples only when the input
\* ring already holds FRAME_SAMPLES x 10 x 2 floats, and then one stereo
\* pair leaves the front for each pair pushed, so the ring stays at that
\* length; for mono and for stereo capture devices alike.
C38_DiscardOnlyWhenFull ==
    (aud_last.op = "capture" /\ aud_last.drops # << >>) =>
        /\ \A i \in DOMAIN aud_last.drops :
              aud_last.drops[i].held = TARGET_FRAME_SIZE * 10 * 2
        /\ Len(input_ring) = TARGET_FRAME_SIZE * 10 * 2

----------------------------------------------------------------------------
(* Claims about disconnect                                                   *)

\* the packet is the EOF packet, bare or wrapped for reliable delivery
IsEofPlain(b) ==
    \/ b = << TagEof >>
    \/ IsReliablePlain(b) /\ SubSeq(b, 6, Len(b)) = << TagEof >>

\* the step is a call of disconnect: `connected` falls and the thread stays
\* where it is
DisconnectCalled == connected /\ ~connected' /\ net_pc' = net_pc

----------------------------------------------------------------------------
(* Claims about the console's create                                         *)

\* the step handles a console's `create <name>`
CreateHandled ==
    /\ last'.op \in {"console", "panic"}
    /\ Len(last'.data) >= 3 /\ last'.data[2] = "create"

\* C40: create always inserts the new channel under an id that was not in
\* use, one more than the largest existing id in the id's unsigned
\* arithmetic, and leaves every existing channel unchanged, also when a
\* channel with the largest id exists because a client joined it.
C40_CreateFreshId ==
    [][CreateHandled =>
          LET new_id == IF DOMAIN channels = {} THEN 1
                        ELSE wrapping_add(MaxKey(channels), 1)
          IN /\ new_id \notin DOMAIN channels
             /\ DOMAIN channels' = DOMAIN channels \cup {new_id}
             /\ \A id \in DOMAIN channels : channels'[id] = channels[id]]_vars

====
